---- MODULE Spec2Model ----
(***************************************************************************)
(* Scoring pipeline of the Oceans validator: stake-weighted vote           *)
(* aggregation and reward computation (validator/rewards.py) and the       *)
(* persistent EMA score vector with metagraph resync (base/validator.py).  *)
(*                                                                         *)
(* Python floats are modelled as exact rationals <<numerator, denominator>>*)
(* in lowest terms with a positive denominator; <<0, 0>> stands for NaN.   *)
(***************************************************************************)
EXTENDS Integers, Sequences, FiniteSets, TLC

\* ------------------------------------------------------------------------
\* Bounds of the model
\* ------------------------------------------------------------------------
MaxVotes == 2
MaxN == 2
MaxUpdates == 3
MaxPeriods == 3
MaxPositions == 2
MaxLookups == 6
MaxThreads == 3

\* ------------------------------------------------------------------------
\* Float arithmetic (exact rationals)
\* ------------------------------------------------------------------------
Abs(a) == IF a < 0 THEN -a ELSE a

RECURSIVE Gcd(_, _)
Gcd(a, b) == IF b = 0 THEN a ELSE Gcd(b, a % b)

Rat(n, d) ==
    LET g == Gcd(Abs(n), Abs(d))
        s == IF d < 0 THEN -1 ELSE 1
    IN  << (s * n) \div g, (s * d) \div g >>

Zero == << 0, 1 >>
One == << 1, 1 >>

RAdd(x, y) == Rat(x[1] * y[2] + y[1] * x[2], x[2] * y[2])
RMul(x, y) == Rat(x[1] * y[1], x[2] * y[2])
RDiv(x, y) == Rat(x[1] * y[2], x[2] * y[1])
RLeq(x, y) == x[1] * y[2] <= y[1] * x[2]
RPos(x) == x[1] > 0

RECURSIVE RPow(_, _)
RPow(x, k) == IF k = 0 THEN One ELSE RMul(x, RPow(x, k - 1))

\* Non-finite floats, and the largest finite float (a stand-in value).
NaN == << 0, 0 >>
PosInf == << 1, 0 >>
NegInf == << -1, 0 >>
FloatMax == << 1000, 1 >>

\* ------------------------------------------------------------------------
\* Python dicts as functions with a finite domain
\* ------------------------------------------------------------------------
EmptyMap == [k \in {} |-> Zero]

Get(f, k) == IF k \in DOMAIN f THEN f[k] ELSE Zero

RECURSIVE SumOver(_, _)
SumOver(f, ks) ==
    IF ks = {} THEN Zero
    ELSE LET k == CHOOSE x \in ks : TRUE
         IN  RAdd(f[k], SumOver(f, ks \ {k}))

SumMap(f) == SumOver(f, DOMAIN f)

\* ------------------------------------------------------------------------
\* Input domains
\* ------------------------------------------------------------------------
Subnets == {1, 2}
StakeValues == { Rat(-1, 1), Zero, One, Rat(3, 1) }
WeightValues == { Zero, One }

MapsOver(keys, vals) == UNION { [ks -> vals] : ks \in SUBSET keys }

VoteSet == [ voter_stake : StakeValues, weights : MapsOver(Subnets, WeightValues) ]

SeqsUpTo(S, n) == UNION { [1..k -> S] : k \in 0..n }

LpSlots == {0, 1}
LpValues == { Rat(-1, 1), Zero, One, Rat(3, 1) }

\* The votes of the reward computation: positive stakes, weights for one
\* sub-market, for both, or for both with one of them 0.
RewardVoteSet ==
    [ voter_stake : { One, Rat(3, 1) },
      weights : { (1 :> One), (1 :> One @@ 2 :> One), (1 :> Zero @@ 2 :> One) } ]

\* The end-to-end scenario of the specification: sub-markets 1 and 2,
\* slots A = 0 and B = 1.
ExampleVotes ==
    << [ voter_stake |-> Rat(100, 1), weights |-> (1 :> One) ],
       [ voter_stake |-> Rat(300, 1),
         weights |-> (1 :> Rat(1, 2) @@ 2 :> Rat(1, 2)) ] >>

\* The same two voters with the stakes exchanged.
SwappedVotes ==
    << [ voter_stake |-> Rat(300, 1), weights |-> (1 :> One) ],
       [ voter_stake |-> Rat(100, 1),
         weights |-> (1 :> Rat(1, 2) @@ 2 :> Rat(1, 2)) ] >>

ExampleLiquidity ==
    (1 :> (0 :> Rat(10, 1) @@ 1 :> Rat(30, 1)) @@ 2 :> (0 :> Rat(5, 1)))

VARIABLES
    votes,        \* compute / _build_master_vector: the `votes` argument
    vi,           \* _build_master_vector: position of `for v in votes`
    raw,          \* _build_master_vector: local `raw`
    total_stake,  \* _build_master_vector: local `total_stake`
    master_w,     \* the master vector returned / used by compute
    pc,           \* position in the function under execution
    liquidity,    \* compute: the `liquidity` argument
    metagraph_n,  \* compute: len(metagraph.uids); uids are 0..n-1
    rewards       \* compute: the returned map

VARIABLES
    scores,       \* self.scores, indexed by uid 0..n-1
    hotkeys,      \* self.hotkeys, the binding seen at the last resync
    axons,        \* self.metagraph.axons, as of the last metagraph sync
    op,           \* the operation that produced this state
    outcome,      \* how that operation ended
    call,         \* the arguments of the last update_scores call
    prev_scores,  \* self.scores before the last operation
    prev_hotkeys, \* self.hotkeys before the last operation
    updates,      \* number of EMA updates applied so far
    zero_run,     \* number of consecutive updates with an all-zero reward
    base_scores   \* self.scores when that run of updates began

VARIABLES
    step          \* self.step, the iterations of the run loop so far

VARIABLES
    liquidity_subnets,    \* fetch_and_store: what self._fetch_fn returns
    lookups,              \* the chain's answer to each AlphaSqrtPrice query
    netuid,               \* fetch_and_store: the `netuid` argument
    primary_uid_map,      \* self._primary_uid_map, coldkey -> uid
    price_map,            \* fetch_and_store: local `price_map`
    lsi,                  \* position of `for ls in liquidity_subnets`
    aggregated,           \* fetch_and_store: local `aggregated`
    accepted,             \* the positions logged as accepted so far
    liq_map,              \* fetch_and_store: the returned map
    COUNT_ONLY_IN_RANGE,  \* LiquidityFetcher.COUNT_ONLY_IN_RANGE
    MIN_RELATIVE_WIDTH    \* LiquidityFetcher.MIN_RELATIVE_WIDTH

VARIABLES
    price_subnets,  \* _fetch_current_prices: set(subnets)
    one_pc,         \* position of each `_one(u)` task of the gather
    one_result,     \* what each `_one(u)` returned
    gather_pc,      \* position of _fetch_current_prices
    gathered        \* _fetch_current_prices: local `prices`

VARIABLES
    is_running,     \* self.is_running
    should_exit,    \* self.should_exit
    caller_pc,      \* position of the thread that calls run_in_background_thread / stop_run_thread
    threads         \* position of every thread started on self.run

VARIABLES
    tries,          \* backoff: calls of get_latest_votes made so far
    attempts,       \* how each of them ended
    waits,          \* backoff: the seconds slept before each retry
    client_pc       \* position of the decorated get_latest_votes

VARIABLES
    weights         \* set_weights: raw_weights of the last emission

voteVars == << votes, vi, raw, total_stake, master_w, pc >>
rewardVars == << liquidity, metagraph_n, rewards >>
scoreVars == << scores, hotkeys, axons, op, outcome, call, prev_scores,
                prev_hotkeys, updates, zero_run, base_scores >>
liqVars == << liquidity_subnets, lookups, netuid, primary_uid_map, price_map, lsi,
             aggregated, accepted, liq_map, COUNT_ONLY_IN_RANGE, MIN_RELATIVE_WIDTH >>
priceVars == << price_subnets, one_pc, one_result, gather_pc, gathered >>
threadVars == << is_running, should_exit, caller_pc, threads >>
clientVars == << tries, attempts, waits, client_pc >>
auxVars == << priceVars, threadVars, clientVars, weights >>
vars == << voteVars, rewardVars, scoreVars, step, liqVars, auxVars >>

\* Nothing but the pipeline under study is running.
IdlePrices ==
    /\ price_subnets = {}
    /\ one_pc = << >>
    /\ one_result = << >>
    /\ gather_pc = "idle"
    /\ gathered = << >>

IdleThreads ==
    /\ is_running = FALSE
    /\ should_exit = FALSE
    /\ caller_pc = "ready"
    /\ threads = << >>

IdleClient ==
    /\ tries = 0
    /\ attempts = << >>
    /\ waits = << >>
    /\ client_pc = "idle"

NoWeights == << >>

IdleAux == IdlePrices /\ IdleThreads /\ IdleClient /\ weights = NoWeights

\* `netuid=None`
NoNetuid == -1

\* The liquidity fetcher before any call, with the default policy.
IdleLiquidityFetcher ==
    /\ liquidity_subnets = << >>
    /\ lookups = << >>
    /\ netuid = NoNetuid
    /\ primary_uid_map = << >>
    /\ price_map = << >>
    /\ lsi = 1
    /\ aggregated = << >>
    /\ accepted = {}
    /\ liq_map = << >>
    /\ COUNT_ONLY_IN_RANGE = TRUE
    /\ MIN_RELATIVE_WIDTH = << 0, 1 >>

NoCall == [ rewards |-> << >>, uids |-> << >> ]

IdleScores ==
    /\ scores = EmptyMap
    /\ hotkeys = EmptyMap
    /\ axons = EmptyMap
    /\ op = "idle"
    /\ outcome = "ok"
    /\ call = NoCall
    /\ prev_scores = EmptyMap
    /\ prev_hotkeys = EmptyMap
    /\ updates = 0
    /\ zero_run = 0
    /\ base_scores = EmptyMap

IdleReward ==
    /\ liquidity = EmptyMap
    /\ metagraph_n = 0
    /\ rewards = EmptyMap

\* ------------------------------------------------------------------------
\* RewardCalculator._build_master_vector
\* ------------------------------------------------------------------------
\* Mutant: `stake < 0.0` in place of `stake <= 0.0`.
QualifiesZeroStake(v) ==
    /\ RLeq(Zero, v.voter_stake)
    /\ DOMAIN v.weights # {}
    /\ ~ RLeq(SumMap(v.weights), Zero)

\* The guards of the loop body: a vote that reaches the accumulation.
Qualifies(v) ==
    /\ ~ RLeq(v.voter_stake, Zero)
    /\ DOMAIN v.weights # {}
    /\ ~ RLeq(SumMap(v.weights), Zero)

\* One iteration of `for v in votes` on the accumulators (raw, total_stake).
\* Mutant: the weights of a vote are not normalised by their sum.
AccumulateVoteUnnormalised(acc, v) ==
    IF ~ Qualifies(v) THEN acc
    ELSE [ raw |-> [ sid \in DOMAIN acc.raw \cup DOMAIN v.weights |->
                       IF sid \in DOMAIN v.weights
                       THEN RAdd(Get(acc.raw, sid),
                                 RMul(v.voter_stake, v.weights[sid]))
                       ELSE acc.raw[sid] ],
           total_stake |-> RAdd(acc.total_stake, v.voter_stake) ]

AccumulateVote(acc, v) ==
    IF ~ Qualifies(v) THEN acc
    ELSE LET s == SumMap(v.weights)
         IN  [ raw |-> [ sid \in DOMAIN acc.raw \cup DOMAIN v.weights |->
                           IF sid \in DOMAIN v.weights
                           THEN RAdd(Get(acc.raw, sid),
                                     RMul(v.voter_stake, RDiv(v.weights[sid], s)))
                           ELSE acc.raw[sid] ],
               total_stake |-> RAdd(acc.total_stake, v.voter_stake) ]

\* Mutant: without qualifying stake, a zero weight for every sub-market
\* in place of the empty map.
MasterOfZeroVector(acc) ==
    IF RLeq(acc.total_stake, Zero) THEN [ sid \in Subnets |-> Zero ]
    ELSE [ sid \in DOMAIN acc.raw |-> RDiv(acc.raw[sid], acc.total_stake) ]

\* The value returned after the loop.
MasterOf(acc) ==
    IF RLeq(acc.total_stake, Zero) THEN EmptyMap
    ELSE [ sid \in DOMAIN acc.raw |-> RDiv(acc.raw[sid], acc.total_stake) ]

RECURSIVE FoldVotes(_, _)
FoldVotes(vs, k) ==
    IF k = 0 THEN [ raw |-> EmptyMap, total_stake |-> Zero ]
    ELSE AccumulateVote(FoldVotes(vs, k - 1), vs[k])

BuildMasterVector(vs) ==
    IF Len(vs) = 0 THEN EmptyMap
    ELSE MasterOf(FoldVotes(vs, Len(vs)))

InitVotes ==
    /\ step = 0
    /\ IdleLiquidityFetcher
    /\ IdleAux
    /\ IdleReward
    /\ IdleScores
    /\ votes \in SeqsUpTo(VoteSet, MaxVotes)
    /\ vi = 1
    /\ raw = EmptyMap
    /\ total_stake = Zero
    /\ master_w = EmptyMap
    /\ pc = "start"

\* `if not votes: return {}`
VotesEmptyReturn ==
    /\ pc = "start"
    /\ Len(votes) = 0
    /\ master_w' = EmptyMap
    /\ pc' = "done"
    /\ UNCHANGED << votes, vi, raw, total_stake >>

VotesEnterLoop ==
    /\ pc = "start"
    /\ Len(votes) > 0
    /\ pc' = "loop"
    /\ UNCHANGED << votes, vi, raw, total_stake, master_w >>

VotesLoop ==
    /\ pc = "loop"
    /\ vi <= Len(votes)
    /\ LET acc == AccumulateVote([ raw |-> raw, total_stake |-> total_stake ], votes[vi])
       IN  /\ raw' = acc.raw
           /\ total_stake' = acc.total_stake
    /\ vi' = vi + 1
    /\ UNCHANGED << votes, master_w, pc >>

VotesReturn ==
    /\ pc = "loop"
    /\ vi > Len(votes)
    /\ master_w' = MasterOf([ raw |-> raw, total_stake |-> total_stake ])
    /\ pc' = "done"
    /\ UNCHANGED << votes, vi, raw, total_stake >>

NextVotes ==
    /\ VotesEmptyReturn \/ VotesEnterLoop \/ VotesLoop \/ VotesReturn
    /\ UNCHANGED << rewardVars, scoreVars, step, liqVars, auxVars >>

SpecVotes == InitVotes /\ [][NextVotes]_vars

\* ------------------------------------------------------------------------
\* RewardCalculator.compute
\* ------------------------------------------------------------------------
Uids(n) == 0 .. (n - 1)

\* Mutant: the liquidity of a slot is not divided by the sub-market total.
AddSubnetNoShare(rw, lp_by_uid, total_lp, w_sub) ==
    LET active == { uid \in DOMAIN lp_by_uid : ~ RLeq(lp_by_uid[uid], Zero) }
    IN  [ uid \in DOMAIN rw \cup active |->
            IF uid \in active
            THEN RAdd(Get(rw, uid), RMul(lp_by_uid[uid], w_sub))
            ELSE rw[uid] ]

\* The inner loop `for uid, lp_amt in lp_by_uid.items()` for one sub-market
\* of weight w_sub and total liquidity total_lp.
AddSubnet(rw, lp_by_uid, total_lp, w_sub) ==
    LET inv_total_lp == RDiv(One, total_lp)
        active == { uid \in DOMAIN lp_by_uid : ~ RLeq(lp_by_uid[uid], Zero) }
    IN  [ uid \in DOMAIN rw \cup active |->
            IF uid \in active
            THEN RAdd(Get(rw, uid), RMul(RMul(lp_by_uid[uid], inv_total_lp), w_sub))
            ELSE rw[uid] ]

\* The outer loop `for raw_sid, w_sub in master_w.items()` over the
\* sub-markets sids still to visit.
RECURSIVE ApplyFormula(_, _, _, _)
ApplyFormula(rw, master, lp_map, sids) ==
    IF sids = {} THEN rw
    ELSE LET sid == CHOOSE x \in sids : TRUE
             w_sub == master[sid]
             lp_by_uid == IF sid \in DOMAIN lp_map THEN lp_map[sid] ELSE EmptyMap
             total_lp == SumMap(lp_by_uid)
             rw2 == IF RLeq(w_sub, Zero) \/ RLeq(total_lp, Zero)
                    THEN rw
                    ELSE AddSubnet(rw, lp_by_uid, total_lp, w_sub)
         IN  ApplyFormula(rw2, master, lp_map, sids \ {sid})

RawRewards(master, lp_map) == ApplyFormula(EmptyMap, master, lp_map, DOMAIN master)

\* Mutant: the raw rewards are returned without the division by their sum.
NormaliseNoScale(rw, n) ==
    IF RPos(SumMap(rw)) THEN rw
    ELSE [ uid \in Uids(n) |-> RDiv(One, Rat(n, 1)) ]

\* Mutant: no uniform fallback, the (empty) raw rewards are returned.
NormaliseNoFallback(rw, n) ==
    LET ttl == SumMap(rw)
    IN  IF RPos(ttl)
        THEN [ uid \in DOMAIN rw |-> RMul(rw[uid], RDiv(One, ttl)) ]
        ELSE rw

\* Step 4: normalise or fall back to the uniform distribution.
Normalise(rw, n) ==
    LET ttl == SumMap(rw)
    IN  IF RPos(ttl)
        THEN [ uid \in DOMAIN rw |-> RMul(rw[uid], RDiv(One, ttl)) ]
        ELSE [ uid \in Uids(n) |-> RDiv(One, Rat(n, 1)) ]

Compute(n, vs, lp_map) ==
    IF n = 0 THEN EmptyMap
    ELSE Normalise(RawRewards(BuildMasterVector(vs), lp_map), n)

LiquidityMaps == [ Subnets -> [ LpSlots -> LpValues ] ]

InitReward ==
    /\ step = 0
    /\ IdleLiquidityFetcher
    /\ IdleAux
    /\ IdleScores
    /\ \/ /\ votes \in { ExampleVotes, SwappedVotes }
          /\ liquidity = ExampleLiquidity
          /\ metagraph_n = 2
       \/ /\ votes \in SeqsUpTo(RewardVoteSet, MaxVotes)
          /\ liquidity \in LiquidityMaps
          /\ metagraph_n \in 0 .. MaxN
    /\ vi = 1
    /\ raw = EmptyMap
    /\ total_stake = Zero
    /\ master_w = EmptyMap
    /\ rewards = EmptyMap
    /\ pc = "start"

\* `if not uids: return {}`
ComputeNoUids ==
    /\ pc = "start"
    /\ metagraph_n = 0
    /\ rewards' = Compute(metagraph_n, votes, liquidity)
    /\ pc' = "done"
    /\ UNCHANGED << votes, vi, raw, total_stake, master_w, liquidity, metagraph_n >>

\* The run that ends in the `if ttl > 0.0` branch.
ComputeNormalised ==
    /\ pc = "start"
    /\ metagraph_n > 0
    /\ master_w' = BuildMasterVector(votes)
    /\ RPos(SumMap(RawRewards(master_w', liquidity)))
    /\ rewards' = Compute(metagraph_n, votes, liquidity)
    /\ pc' = "done"
    /\ UNCHANGED << votes, vi, raw, total_stake, liquidity, metagraph_n >>

\* The run that ends in the `else` branch (uniform distribution).
ComputeUniform ==
    /\ pc = "start"
    /\ metagraph_n > 0
    /\ master_w' = BuildMasterVector(votes)
    /\ ~ RPos(SumMap(RawRewards(master_w', liquidity)))
    /\ rewards' = Compute(metagraph_n, votes, liquidity)
    /\ pc' = "done"
    /\ UNCHANGED << votes, vi, raw, total_stake, liquidity, metagraph_n >>

NextReward ==
    /\ ComputeNoUids \/ ComputeNormalised \/ ComputeUniform
    /\ UNCHANGED << scoreVars, step, liqVars, auxVars >>

SpecReward == InitReward /\ [][NextReward]_vars

\* ------------------------------------------------------------------------
\* BaseValidatorNeuron: the score vector, resync_metagraph, update_scores
\* ------------------------------------------------------------------------
\* The lengths of the reward and uid lists of a call.
CallLengths == {0, 1, 2}

HotkeyList == << "hk1", "hk2", "hk3" >>
Hotkeys == { HotkeyList[j] : j \in 1 .. Len(HotkeyList) }
Ips == {1, 2}
RewardValues == { Zero, One }

\* The axon lists the chain can serve for n slots: one hotkey per slot, no
\* hotkey bound to two slots; only the axon of slot 0 moves between ips.
AxonLists(n) ==
    { a \in [ Uids(n) -> [ hotkey : Hotkeys, ip : Ips ] ] :
        /\ \A u, v \in Uids(n) : u # v => a[u].hotkey # a[v].hotkey
        /\ \A u \in Uids(n) : u # 0 => a[u].ip = 1 }

\* metagraph.hotkeys
HotkeysOf(a) == [ uid \in DOMAIN a |-> a[uid].hotkey ]

Zeros(n) == [ uid \in Uids(n) |-> Zero ]

Size(v) == Cardinality(DOMAIN v)

\* Mutant: every score is reset as soon as one slot was rebound.
ZeroReplacedAll(sc, hk, new_hk) ==
    IF \E uid \in DOMAIN hk : hk[uid] # new_hk[uid]
    THEN [ uid \in DOMAIN sc |-> Zero ]
    ELSE sc

\* `for uid, hk in enumerate(self.hotkeys): if hk != ...: scores[uid] = 0`
ZeroReplaced(sc, hk, new_hk) ==
    [ uid \in DOMAIN sc |->
        IF uid \in DOMAIN hk /\ hk[uid] # new_hk[uid] THEN Zero ELSE sc[uid] ]

\* Mutant: the grown vector is not filled with the old scores.
ResizeNoCopy(sc, hk, new_hk) ==
    IF Size(hk) < Size(new_hk) THEN Zeros(Size(new_hk)) ELSE sc

\* Mutant: the vector is never grown.
ResizeNever(sc, hk, new_hk) == sc

\* `if len(self.hotkeys) < len(self.metagraph.hotkeys)`: grow the vector.
Resize(sc, hk, new_hk) ==
    IF Size(hk) < Size(new_hk)
    THEN [ uid \in Uids(Size(new_hk)) |-> IF uid \in DOMAIN sc THEN sc[uid] ELSE Zero ]
    ELSE sc

\* np.nan_to_num(rewards, nan=0.0)
NanToNum(x) ==
    IF x = NaN THEN Zero
    ELSE IF x = PosInf THEN FloatMax
    ELSE IF x = NegInf THEN << -FloatMax[1], 1 >>
    ELSE x

\* Mutant: rewards are written by position instead of by uid.
ScatterByPosition(sc, us, rs, k) ==
    [ uid \in DOMAIN sc |-> IF (uid + 1) \in 1 .. k THEN rs[uid + 1] ELSE Zero ]

\* `scattered = zeros_like(scores); scattered[uids] = rewards`, the first k
\* assignments in order.
RECURSIVE Scatter(_, _, _, _)
Scatter(sc, us, rs, k) ==
    IF k = 0 THEN [ uid \in DOMAIN sc |-> Zero ]
    ELSE [ Scatter(sc, us, rs, k - 1) EXCEPT ![us[k]] = rs[k] ]

Alpha == Rat(1, 10)

\* Mutant: the two weights of the moving average are exchanged.
EmaSwapped(scattered, old) ==
    [ uid \in DOMAIN old |->
        RAdd(RMul(RAdd(One, RMul(Rat(-1, 1), Alpha)), scattered[uid]),
             RMul(Alpha, old[uid])) ]

\* `alpha * scattered + (1.0 - alpha) * self.scores`
Ema(scattered, old) ==
    [ uid \in DOMAIN old |->
        RAdd(RMul(Alpha, scattered[uid]),
             RMul(RAdd(One, RMul(Rat(-1, 1), Alpha)), old[uid])) ]

AllZero(rs) == Len(rs) > 0 /\ \A j \in 1 .. Len(rs) : rs[j] = Zero

\* __init__ on a metagraph whose axons are one of axon_lists: hotkeys
\* copied from the metagraph, scores all zero.
InitOn(axon_lists) ==
    /\ step = 0
    /\ IdleLiquidityFetcher
    /\ IdleAux
    /\ IdleReward
    /\ votes = << >>
    /\ vi = 1
    /\ raw = EmptyMap
    /\ total_stake = Zero
    /\ master_w = EmptyMap
    /\ pc = "idle"
    /\ axons \in axon_lists
    /\ scores = Zeros(Size(axons))
    /\ hotkeys = HotkeysOf(axons)
    /\ op = "init"
    /\ outcome = "ok"
    /\ call = NoCall
    /\ prev_scores = scores
    /\ prev_hotkeys = hotkeys
    /\ updates = 0
    /\ zero_run = 0
    /\ base_scores = scores

InitScores == InitOn(UNION { AxonLists(n) : n \in 1 .. MaxN })

\* The metagraph of n slots whose slot uid is bound to the hotkey number
\* uid + 1.
FirstAxons(n) == [ uid \in Uids(n) |-> [ hotkey |-> HotkeyList[uid + 1], ip |-> 1 ] ]

InitUpdates == InitOn({ FirstAxons(n) : n \in 1 .. MaxN })

\* resync_metagraph when the synced metagraph has the same axons.
ResyncUnchanged ==
    /\ op = "idle"
    /\ op' = "resync"
    /\ outcome' = "unchanged"
    /\ prev_scores' = scores
    /\ prev_hotkeys' = hotkeys
    /\ UNCHANGED << axons, scores, hotkeys, call, updates, zero_run, base_scores >>

\* resync_metagraph when the synced metagraph has the axons new_axons,
\* other than those before.
ResyncTo(new_axons) ==
    /\ op = "idle"
    /\ new_axons # axons
    /\ axons' = new_axons
    /\ LET new_hk == HotkeysOf(new_axons)
           zeroed == ZeroReplaced(scores, hotkeys, new_hk)
       IN  /\ scores' = Resize(zeroed, hotkeys, new_hk)
           /\ hotkeys' = new_hk
    /\ zero_run' = 0
    /\ base_scores' = scores'
    /\ op' = "resync"
    /\ outcome' = "ok"
    /\ prev_scores' = scores
    /\ prev_hotkeys' = hotkeys
    /\ UNCHANGED << call, updates >>

\* resync_metagraph when the chain serves other axons, for the same or a
\* larger number of slots.
ResyncChanged ==
    \E n \in Size(axons) .. MaxN : \E new_axons \in AxonLists(n) : ResyncTo(new_axons)

\* The calls update_scores(rewards, uids) of the model: lists of rewards
\* and of uids, the uids inside or outside the vector.
RewardLists(k) == [ 1 .. k -> RewardValues ]
UidLists(k) == [ 1 .. k -> 0 .. MaxN ]

\* The bookkeeping of a call that leaves the scores alone.
NoUpdate(rs, us, how) ==
    /\ op = "idle"
    /\ op' = "update_scores"
    /\ outcome' = how
    /\ call' = [ rewards |-> rs, uids |-> us ]
    /\ prev_scores' = scores
    /\ prev_hotkeys' = hotkeys
    /\ UNCHANGED << scores, hotkeys, axons, updates, zero_run, base_scores >>

\* `if rewards.size == 0 or uids.size == 0: return`
UpdateScoresEmpty ==
    \E k \in CallLengths :
        \/ \E us \in UidLists(k) : NoUpdate(<< >>, us, "empty")
        \/ \E rs \in RewardLists(k) : NoUpdate(rs, << >>, "empty")

\* `if rewards.size != uids.size: raise ValueError`
UpdateScoresShapeMismatch ==
    \E k, l \in CallLengths \ {0} :
        /\ k # l
        /\ \E rs \in RewardLists(k) : \E us \in UidLists(l) :
              NoUpdate(rs, us, "ValueError")

\* `scattered[uids] = rewards` with a uid outside the vector: IndexError
UpdateScoresIndexError ==
    \E k \in CallLengths \ {0} : \E us \in UidLists(k) :
        /\ \E j \in 1 .. k : us[j] \notin DOMAIN scores
        /\ \E rs \in RewardLists(k) : NoUpdate(rs, us, "IndexError")

\* The EMA update of a call that passes the checks.
ApplyUpdate(rewards_in, us) ==
    /\ op = "idle"
    /\ updates < MaxUpdates
    /\ LET k == Len(rewards_in)
           rs == [ j \in 1 .. k |-> NanToNum(rewards_in[j]) ]
           scattered == Scatter(scores, us, rs, k)
       IN  scores' = Ema(scattered, scores)
    /\ updates' = updates + 1
    /\ IF AllZero(rewards_in)
       THEN /\ zero_run' = zero_run + 1
            /\ base_scores' = IF zero_run = 0 THEN scores ELSE base_scores
       ELSE /\ zero_run' = 0
            /\ base_scores' = scores'
    /\ op' = "update_scores"
    /\ outcome' = "ok"
    /\ call' = [ rewards |-> rewards_in, uids |-> us ]
    /\ prev_scores' = scores
    /\ prev_hotkeys' = hotkeys
    /\ UNCHANGED << hotkeys, axons >>

\* update_scores called with any non-empty lists of equal length that
\* name slots of the vector.
UpdateScores ==
    \E k \in CallLengths \ {0} : \E us \in [ 1 .. k -> DOMAIN scores ] :
        \E rewards_in \in RewardLists(k) : ApplyUpdate(rewards_in, us)

\* The reward vectors forward() hands over: one entry per uid, summing
\* to 1, here all on one slot or uniform.
ForwardRewards(n) ==
    { [ j \in 1 .. n |-> IF j = w THEN One ELSE Zero ] : w \in 1 .. n }
        \cup { [ j \in 1 .. n |-> Rat(1, n) ] }

\* update_scores as forward() calls it: update_scores(boosted, uids_np)
\* with uids_np = metagraph.uids.
ForwardUpdate ==
    \E rewards_in \in ForwardRewards(Size(axons)) :
        ApplyUpdate(rewards_in, [ j \in 1 .. Size(axons) |-> j - 1 ])

\* The operation has returned to the run loop, which goes round again.
Continue ==
    /\ op # "idle"
    /\ op' = "idle"
    /\ outcome' = "ok"
    /\ call' = NoCall
    /\ prev_scores' = scores
    /\ prev_hotkeys' = hotkeys
    /\ UNCHANGED << scores, hotkeys, axons, updates, zero_run, base_scores >>

\* The validator's loop: metagraph resyncs and the score update of each
\* forward().
NextScores ==
    /\ \/ Continue
       \/ ResyncUnchanged
       \/ ResyncChanged
       \/ ForwardUpdate
    /\ UNCHANGED << voteVars, rewardVars, step, liqVars, auxVars >>

SpecScores == InitScores /\ [][NextScores]_vars

\* update_scores as a method, called with any arguments on a fixed
\* metagraph.
NextUpdates ==
    /\ \/ Continue
       \/ UpdateScoresEmpty
       \/ UpdateScoresShapeMismatch
       \/ UpdateScoresIndexError
       \/ UpdateScores
    /\ UNCHANGED << voteVars, rewardVars, step, liqVars, auxVars >>

SpecUpdates == InitUpdates /\ [][NextUpdates]_vars

\* The values np.asarray(rewards, dtype=np.float64) can hold besides the
\* finite ones.
NonFiniteValues == { NaN, PosInf, NegInf }

IsFinite(x) == x[2] # 0

\* update_scores called with well-formed lists in which at least one
\* reward is NaN or an infinity.
UpdateScoresNonFinite ==
    \E k \in CallLengths \ {0} : \E us \in [ 1 .. k -> DOMAIN scores ] :
        \E rewards_in \in [ 1 .. k -> RewardValues \cup NonFiniteValues ] :
            /\ \E j \in 1 .. k : ~ IsFinite(rewards_in[j])
            /\ ApplyUpdate(rewards_in, us)

\* update_scores on a fixed metagraph, with finite and non-finite rewards.
NextNonFinite ==
    /\ \/ Continue
       \/ UpdateScores
       \/ UpdateScoresNonFinite
    /\ UNCHANGED << voteVars, rewardVars, step, liqVars, auxVars >>

SpecNonFinite == InitUpdates /\ [][NextNonFinite]_vars

\* ------------------------------------------------------------------------
\* EpochValidatorNeuron.run and forward(): one period after the other
\* ------------------------------------------------------------------------
\* What the vote API serves in a period: no vote, a vote without stake, a
\* vote for sub-market 1, votes for both sub-markets.
PeriodVotes ==
    { << >>,
      << [ voter_stake |-> Zero, weights |-> (1 :> One) ] >>,
      << [ voter_stake |-> One, weights |-> (1 :> One) ] >>,
      << [ voter_stake |-> One, weights |-> (1 :> One) ],
         [ voter_stake |-> Rat(3, 1), weights |-> (1 :> One @@ 2 :> One) ] >> }

\* What the liquidity fetcher returns in a period: positive amounts by
\* sub-market and slot; the slot MaxN is outside every universe.
PeriodLiquidity ==
    { EmptyMap,
      (2 :> (0 :> One)),
      (1 :> (0 :> One @@ MaxN :> Rat(3, 1))),
      (1 :> (MaxN :> One)) }

\* Mutant: `0 < uid < num_uids`, slot 0 is never filled in.
DensifyFromOne(n, uid_scores) ==
    LET boosted == [ uid \in Uids(n) |->
                       IF uid \in DOMAIN uid_scores /\ uid # 0
                       THEN uid_scores[uid] ELSE Zero ]
        total == SumMap(boosted)
    IN  IF RPos(total)
        THEN [ uid \in Uids(n) |-> RDiv(boosted[uid], total) ]
        ELSE [ uid \in Uids(n) |-> RDiv(One, Rat(n, 1)) ]

\* Mutant: step 4 is left out, the in-universe entries are handed over as
\* compute returned them.
DensifyNoRenormalise(n, uid_scores) ==
    LET boosted == [ uid \in Uids(n) |-> Get(uid_scores, uid) ]
        total == SumMap(boosted)
    IN  IF RPos(total)
        THEN boosted
        ELSE [ uid \in Uids(n) |-> RDiv(One, Rat(n, 1)) ]

\* forward(), steps 3 and 4: the map of compute as an array in metagraph
\* order, entries outside 0..n-1 dropped, normalised to sum 1 or uniform.
Densify(n, uid_scores) ==
    LET boosted == [ uid \in Uids(n) |-> Get(uid_scores, uid) ]
        total == SumMap(boosted)
    IN  IF RPos(total)
        THEN [ uid \in Uids(n) |-> RDiv(boosted[uid], total) ]
        ELSE [ uid \in Uids(n) |-> RDiv(One, Rat(n, 1)) ]

\* An array indexed by uid as the list handed to update_scores.
AsList(arr) == [ j \in 1 .. Size(arr) |-> arr[j - 1] ]

\* metagraph.uids
UidList(n) == [ j \in 1 .. n |-> j - 1 ]

\* What a period leaves alone besides the score state.
periodFrame == << vi, raw, total_stake >>

\* The axon lists the chain serves to the run loop: the first hotkeys in
\* order, slot 0 possibly rebound to the last hotkey while that one is free.
PeriodAxonLists(n) ==
    { [ FirstAxons(n) EXCEPT ![0].hotkey = h ] :
        h \in { HotkeyList[1] } \cup
              (IF n < Len(HotkeyList) THEN { HotkeyList[Len(HotkeyList)] } ELSE {}) }

\* `self.sync()` at the top of an iteration: resync_metagraph, the chain
\* serving the same axons, a rebound slot or more slots.
PeriodSync ==
    /\ pc = "idle"
    /\ step < MaxPeriods
    /\ \/ ResyncUnchanged
       \/ \E n \in Size(axons) .. MaxN : \E new_axons \in PeriodAxonLists(n) :
              ResyncTo(new_axons)
    /\ pc' = "synced"
    /\ UNCHANGED << periodFrame, votes, master_w, rewardVars, step >>

\* An iteration that ends without an update: the exception is caught by
\* `except Exception`, `finally` counts the step, the loop goes on.
PeriodFails(what, how) ==
    /\ op = "idle"
    /\ op' = what
    /\ outcome' = how
    /\ pc' = "idle"
    /\ step' = step + 1
    /\ call' = NoCall
    /\ prev_scores' = scores
    /\ prev_hotkeys' = hotkeys
    /\ UNCHANGED << scores, hotkeys, axons, updates, zero_run, base_scores >>
    /\ UNCHANGED << periodFrame, master_w, rewards, metagraph_n >>

\* `self.sync()` raises: the metagraph query failed.
PeriodSyncFails ==
    /\ pc = "idle"
    /\ step < MaxPeriods
    /\ PeriodFails("sync", "ChainError")
    /\ UNCHANGED << votes, liquidity >>

\* forward(): vote_fetcher.fetch_and_store() raises after its retries.
ForwardVoteFetchFails ==
    /\ pc = "synced"
    /\ PeriodFails("forward", "VoteFetchError")
    /\ UNCHANGED << votes, liquidity >>

\* Mutant: the scores are updated with an all-zero reward before the
\* liquidity fetch is found to have failed.
ForwardLiquidityFetchFailsDecayed ==
    /\ pc = "synced"
    /\ op = "idle"
    /\ votes' \in PeriodVotes
    /\ scores' = Ema(Zeros(Size(scores)), scores)
    /\ op' = "forward"
    /\ outcome' = "ChainError"
    /\ pc' = "idle"
    /\ step' = step + 1
    /\ call' = NoCall
    /\ prev_scores' = scores
    /\ prev_hotkeys' = hotkeys
    /\ UNCHANGED << hotkeys, axons, updates, zero_run, base_scores >>
    /\ UNCHANGED << periodFrame, master_w, rewards, metagraph_n, liquidity >>

\* forward(): the votes arrived, liq_fetcher.fetch_and_store() raises (the
\* liquidity download, the uid map or the chain connection failed).
ForwardLiquidityFetchFails ==
    /\ pc = "synced"
    /\ votes' \in PeriodVotes
    /\ PeriodFails("forward", "ChainError")
    /\ UNCHANGED liquidity

\* forward() with both fetches successful: compute, steps 3 and 4, and
\* update_scores(boosted, uids_np).
ForwardCompletes ==
    /\ pc = "synced"
    /\ \E vs \in PeriodVotes : \E lp \in PeriodLiquidity :
          /\ votes' = vs
          /\ liquidity' = lp
          /\ metagraph_n' = Size(axons)
          /\ master_w' = BuildMasterVector(vs)
          /\ rewards' = Compute(Size(axons), vs, lp)
          /\ ApplyUpdate(AsList(Densify(Size(axons), rewards')), UidList(Size(axons)))
    /\ pc' = "idle"
    /\ step' = step + 1
    /\ UNCHANGED periodFrame

\* The sleep between two steps of an iteration or two iterations.
PeriodContinue ==
    /\ Continue
    /\ UNCHANGED << voteVars, rewardVars, step >>

NextPeriod ==
    /\ \/ PeriodContinue
       \/ PeriodSync
       \/ PeriodSyncFails
       \/ ForwardVoteFetchFails
       \/ ForwardLiquidityFetchFails
       \/ ForwardCompletes
    /\ UNCHANGED << liqVars, auxVars >>

SpecPeriod == InitUpdates /\ [][NextPeriod]_vars

\* ------------------------------------------------------------------------
\* LiquidityFetcher.fetch_and_store
\* ------------------------------------------------------------------------
Coldkeys == { "ckA", "ckB" }
LiqSubnets == {1, 2}

RLess(x, y) == ~ RLeq(y, x)
RSub(x, y) == RAdd(x, RMul(Rat(-1, 1), y))

\* `float(sqrt_p) * float(sqrt_p)`
Square(x) ==
    IF x = NaN THEN NaN
    ELSE IF ~ IsFinite(x) THEN PosInf
    ELSE RMul(x, x)

\* _fetch_current_prices._one: the price of one sub-market, 0.0 when the
\* query raised or the price is not finite or not > 0.
PriceOfLookup(lk) ==
    IF ~ lk.ok THEN Zero
    ELSE LET P == Square(lk.sqrt_p)
         IN  IF IsFinite(P) /\ RPos(P) THEN P ELSE Zero

\* _fetch_current_prices: {netuid: price} for the prices > 0.
FetchCurrentPrices(subnets, lks) ==
    [ u \in { v \in subnets : RPos(PriceOfLookup(lks[v])) } |-> PriceOfLookup(lks[u]) ]

\* `P = price_map.get(ls.netuid, 0.0)`
PriceFor(prices, ls) == IF ls.netuid \in DOMAIN prices THEN prices[ls.netuid] ELSE Zero

\* `P and P > 0.0 and math.isfinite(P)`
ValidPrice(P) == P # Zero /\ P # NaN /\ RPos(P) /\ IsFinite(P)

\* Mutant: `p_high < p_low` in place of `p_high <= p_low`.
ValidBoundsZeroWidth(pos) ==
    /\ pos.readable
    /\ IsFinite(pos.price_low) /\ IsFinite(pos.price_high)
    /\ RPos(pos.price_low) /\ RPos(pos.price_high)
    /\ RLeq(pos.price_low, pos.price_high)

\* The guards on the price bounds: readable, finite, > 0, high > low.
ValidBounds(pos) ==
    /\ pos.readable
    /\ IsFinite(pos.price_low) /\ IsFinite(pos.price_high)
    /\ RPos(pos.price_low) /\ RPos(pos.price_high)
    /\ RLess(pos.price_low, pos.price_high)

\* Mutant: `p_low <= P <= p_high`.
InRangeClosed(pos, P, only_in_range) ==
    only_in_range => (RLeq(pos.price_low, P) /\ RLeq(P, pos.price_high))

\* `if self.COUNT_ONLY_IN_RANGE and not (p_low < P < p_high): continue`
InRange(pos, P, only_in_range) ==
    only_in_range => (RLess(pos.price_low, P) /\ RLess(P, pos.price_high))

\* Mutant: `rel_width <= self.MIN_RELATIVE_WIDTH` discards.
WideEnoughStrict(pos, P, min_width) ==
    RPos(min_width) =>
        RLess(min_width, RDiv(RSub(pos.price_high, pos.price_low), P))

\* `if self.MIN_RELATIVE_WIDTH > 0.0`: rel_width >= MIN_RELATIVE_WIDTH.
WideEnough(pos, P, min_width) ==
    RPos(min_width) =>
        RLeq(min_width, RDiv(RSub(pos.price_high, pos.price_low), P))

\* The position reaches `tao_sum += tao_val`.
Accepts(pos, P, only_in_range, min_width) ==
    /\ ValidBounds(pos)
    /\ InRange(pos, P, only_in_range)
    /\ WideEnough(pos, P, min_width)
    /\ pos.valuation_ok

AcceptedIdx(positions, P, only_in_range, min_width) ==
    { k \in 1 .. Len(positions) : Accepts(positions[k], P, only_in_range, min_width) }

RECURSIVE TaoOver(_, _)
TaoOver(positions, ks) ==
    IF ks = {} THEN Zero
    ELSE LET k == CHOOSE x \in ks : TRUE
         IN  RAdd(positions[k].tao, TaoOver(positions, ks \ {k}))

\* `tao_sum` after the loop over the positions of one coldkey.
TaoSum(positions, P, only_in_range, min_width) ==
    TaoOver(positions, AcceptedIdx(positions, P, only_in_range, min_width))

\* The body of `for ls in liquidity_subnets` for a sub-market with a valid
\* price: the subtotal of every coldkey with tao_sum > 0 is added.
AggregateSubnet(agg, ls, P, only_in_range, min_width) ==
    LET cks == { ck \in DOMAIN ls.coldkey_positions :
                   RPos(TaoSum(ls.coldkey_positions[ck], P, only_in_range, min_width)) }
        keys == { << ck, ls.netuid >> : ck \in cks }
    IN  [ key \in DOMAIN agg \cup keys |->
            IF key \in keys
            THEN RAdd(Get(agg, key),
                      TaoSum(ls.coldkey_positions[key[1]], P, only_in_range, min_width))
            ELSE agg[key] ]

\* Mutant: a coldkey without a uid is filed under uid 0.
BuildLiqMapDefaultUid(agg, uid_map) ==
    LET kept == { key \in DOMAIN agg : RPos(agg[key]) }
        uid_of(ck) == IF ck \in DOMAIN uid_map THEN uid_map[ck] ELSE 0
    IN  [ m \in { key[2] : key \in kept } |->
            [ u \in { uid_of(key[1]) : key \in { x \in kept : x[2] = m } } |->
                agg[CHOOSE key \in kept : key[2] = m /\ uid_of(key[1]) = u] ] ]

\* Step 4: the map {subnet: {uid: tao}} of the sums > 0 of the coldkeys
\* that have a uid.
BuildLiqMap(agg, uid_map) ==
    LET kept == { key \in DOMAIN agg : RPos(agg[key]) /\ key[1] \in DOMAIN uid_map }
    IN  [ m \in { key[2] : key \in kept } |->
            [ u \in { uid_map[key[1]] : key \in { x \in kept : x[2] = m } } |->
                agg[CHOOSE key \in kept : key[2] = m /\ uid_map[key[1]] = u] ] ]

RECURSIVE AggregateAll(_, _, _, _, _)
AggregateAll(subnets, k, prices, only_in_range, min_width) ==
    IF k = 0 THEN << >>
    ELSE LET before == AggregateAll(subnets, k - 1, prices, only_in_range, min_width)
             P == PriceFor(prices, subnets[k])
         IN  IF ValidPrice(P)
             THEN AggregateSubnet(before, subnets[k], P, only_in_range, min_width)
             ELSE before

\* The netuids of a list of LiquiditySubnet objects.
NetuidsOf(subnets) == { subnets[k].netuid : k \in 1 .. Len(subnets) }

\* fetch_and_store for netuid=None as a function of what the chain serves.
FetchAndStore(subnets, lks, uid_map, only_in_range, min_width) ==
    BuildLiqMap(AggregateAll(subnets, Len(subnets),
                             FetchCurrentPrices(NetuidsOf(subnets), lks),
                             only_in_range, min_width),
                uid_map)

\* A LiquidityPosition: its bounds, the TAO amount to_token_amounts gives
\* at the current price, whether that call succeeds, and whether
\* float(price_low), float(price_high) succeed.
Pos(low, high, tao_amt) ==
    [ price_low |-> low, price_high |-> high, tao |-> tao_amt,
      valuation_ok |-> TRUE, readable |-> TRUE ]

GoodPosition == Pos(Rat(2, 1), Rat(6, 1), Rat(3, 1))

\* Positions around the prices 1 and 4: wide and narrow bands, bands that
\* begin or end at the price, bands beside it, degenerate bands, bounds
\* that are not positive, not finite or not readable, a failing valuation.
RichPositions ==
    { Pos(b[1], b[2], One) :
        b \in { << Rat(2, 1), Rat(6, 1) >>, << Rat(3, 1), Rat(5, 1) >>,
                << Rat(4, 1), Rat(6, 1) >>, << Rat(2, 1), Rat(4, 1) >>,
                << Rat(5, 1), Rat(6, 1) >>, << Rat(1, 2), Rat(3, 2) >>,
                << Rat(4, 1), Rat(4, 1) >>, << One, One >>,
                << Rat(5, 1), Rat(3, 1) >>, << Zero, Rat(5, 1) >>,
                << Rat(-1, 1), Rat(5, 1) >>, << NaN, Rat(5, 1) >>,
                << Rat(3, 1), PosInf >> } }
      \cup { [ Pos(Rat(3, 1), Rat(5, 1), One) EXCEPT !.readable = FALSE ],
             [ Pos(Rat(3, 1), Rat(5, 1), One) EXCEPT !.valuation_ok = FALSE ] }

\* The positions of the aggregation as a whole: worth 1, worth 3, worth
\* nothing, degenerate, and one whose valuation fails.
SmallPositions ==
    { Pos(Rat(2, 1), Rat(6, 1), One), GoodPosition,
      Pos(Rat(2, 1), Rat(6, 1), Zero), Pos(Rat(4, 1), Rat(4, 1), Rat(3, 1)),
      [ GoodPosition EXCEPT !.valuation_ok = FALSE ] }

\* The answers to an AlphaSqrtPrice query: an exception, or a square root.
FailedLookup == [ ok |-> FALSE, sqrt_p |-> Zero ]
Lookup(x) == [ ok |-> TRUE, sqrt_p |-> x ]

\* zip(mg.uids, mg.coldkeys) of the primary subnet.
UidMaps == { ("ckA" :> 0), ("ckA" :> 0 @@ "ckB" :> 1), ("ckB" :> 0) }

\* The liquidity fetcher before a call: nothing fetched, nothing summed.
FetcherAtStart ==
    /\ step = 0
    /\ IdleAux
    /\ IdleReward
    /\ IdleScores
    /\ votes = << >>
    /\ vi = 1
    /\ raw = EmptyMap
    /\ total_stake = Zero
    /\ master_w = EmptyMap
    /\ pc = "start"
    /\ netuid = NoNetuid
    /\ primary_uid_map = << >>
    /\ price_map = << >>
    /\ lsi = 1
    /\ aggregated = << >>
    /\ accepted = {}
    /\ liq_map = << >>

\* One sub-market, one coldkey with one position of any kind, alone or
\* after a good one; every policy.
InitPositions ==
    /\ FetcherAtStart
    /\ \E pos \in RichPositions : \E positions \in { << pos >>, << GoodPosition, pos >> } :
          liquidity_subnets =
              << [ netuid |-> 1, coldkey_positions |-> ("ckA" :> positions) ] >>
    /\ lookups \in [ {1} -> { FailedLookup, Lookup(One), Lookup(Rat(2, 1)) } ]
    /\ COUNT_ONLY_IN_RANGE \in BOOLEAN
    /\ MIN_RELATIVE_WIDTH \in { Zero, Rat(1, 2), One }

\* The first LiquiditySubnet: sub-market 1, up to MaxPositions positions of
\* coldkey ckA, coldkey ckB absent or with one good position.
FirstSubnets ==
    { [ netuid |-> 1, coldkey_positions |-> cp ] :
        cp \in UNION { { ("ckA" :> ps), ("ckA" :> ps @@ "ckB" :> << GoodPosition >>) } :
                         ps \in SeqsUpTo(SmallPositions, MaxPositions) } }

\* The second one, when there is one: sub-market 1 again or sub-market 2.
SecondSubnets ==
    { [ netuid |-> m,
        coldkey_positions |-> ("ckA" :> << Pos(Rat(2, 1), Rat(6, 1), One) >>
                                 @@ "ckB" :> << Pos(Rat(2, 1), Rat(6, 1), One) >>) ] :
        m \in LiqSubnets }

\* Two sub-markets, two coldkeys, the default policy, every kind of price.
InitLiquidity ==
    /\ FetcherAtStart
    /\ \E ls1 \in FirstSubnets :
          liquidity_subnets \in { << ls1 >> } \cup { << ls1, ls2 >> : ls2 \in SecondSubnets }
    /\ lookups \in [ LiqSubnets -> { FailedLookup, Lookup(Rat(2, 1)) } ]
                   \cup { (1 :> Lookup(x) @@ 2 :> Lookup(Rat(2, 1))) :
                              x \in { NaN, Zero, PosInf } }
    /\ COUNT_ONLY_IN_RANGE = TRUE
    /\ MIN_RELATIVE_WIDTH = Zero

liqInputs == << liquidity_subnets, lookups, COUNT_ONLY_IN_RANGE, MIN_RELATIVE_WIDTH >>

\* `if netuid == 0: return {}`
LiqSubnetZero ==
    /\ pc = "start"
    /\ netuid' = 0
    /\ liq_map' = << >>
    /\ pc' = "done"
    /\ UNCHANGED << liqInputs, primary_uid_map, price_map, lsi, aggregated, accepted >>

\* Steps 1 to 2.5 raise: the download, the uid map or the connection of
\* the price queries failed.
LiqFetchFails ==
    /\ pc = "start"
    /\ pc' = "raised"
    /\ UNCHANGED liqVars

\* Steps 1 to 2.5: the download, the uid map, the prices.
LiqFetch ==
    /\ pc = "start"
    /\ primary_uid_map' \in UidMaps
    /\ price_map' = FetchCurrentPrices(NetuidsOf(liquidity_subnets), lookups)
    /\ pc' = "loop"
    /\ UNCHANGED << liqInputs, netuid, lsi, aggregated, accepted, liq_map >>

\* Mutant: `break` in place of `continue`, the loop ends at the first
\* sub-market without a valid price.
LiqSubnetSkippedBreaks ==
    /\ pc = "loop"
    /\ lsi <= Len(liquidity_subnets)
    /\ ~ ValidPrice(PriceFor(price_map, liquidity_subnets[lsi]))
    /\ lsi' = Len(liquidity_subnets) + 1
    /\ UNCHANGED << liqInputs, netuid, primary_uid_map, price_map, aggregated, accepted,
                    liq_map, pc >>

\* `for ls in liquidity_subnets`: no valid price, `continue`.
LiqSubnetSkipped ==
    /\ pc = "loop"
    /\ lsi <= Len(liquidity_subnets)
    /\ ~ ValidPrice(PriceFor(price_map, liquidity_subnets[lsi]))
    /\ lsi' = lsi + 1
    /\ UNCHANGED << liqInputs, netuid, primary_uid_map, price_map, aggregated, accepted,
                    liq_map, pc >>

\* `for ls in liquidity_subnets`: the positions of every coldkey are
\* filtered, valued and summed.
LiqSubnetAggregated ==
    /\ pc = "loop"
    /\ lsi <= Len(liquidity_subnets)
    /\ LET ls == liquidity_subnets[lsi]
           P == PriceFor(price_map, ls)
       IN  /\ ValidPrice(P)
           /\ aggregated' = AggregateSubnet(aggregated, ls, P, COUNT_ONLY_IN_RANGE,
                                            MIN_RELATIVE_WIDTH)
           /\ accepted' = accepted \cup UNION
                  { { << lsi, ck, k >> :
                        k \in AcceptedIdx(ls.coldkey_positions[ck], P,
                                          COUNT_ONLY_IN_RANGE, MIN_RELATIVE_WIDTH) } :
                      ck \in DOMAIN ls.coldkey_positions }
    /\ lsi' = lsi + 1
    /\ UNCHANGED << liqInputs, netuid, primary_uid_map, price_map, liq_map, pc >>

\* Step 4 and `return liq_map`.
LiqBuildMap ==
    /\ pc = "loop"
    /\ lsi > Len(liquidity_subnets)
    /\ liq_map' = BuildLiqMap(aggregated, primary_uid_map)
    /\ pc' = "done"
    /\ UNCHANGED << liqInputs, netuid, primary_uid_map, price_map, lsi, aggregated,
                    accepted >>

NextLiquidity ==
    /\ \/ LiqSubnetZero
       \/ LiqFetchFails
       \/ LiqFetch
       \/ LiqSubnetSkipped
       \/ LiqSubnetAggregated
       \/ LiqBuildMap
    /\ UNCHANGED << votes, vi, raw, total_stake, master_w, rewardVars, scoreVars, step,
                    auxVars >>

SpecPositions == InitPositions /\ [][NextLiquidity]_vars

SpecLiquidity == InitLiquidity /\ [][NextLiquidity]_vars

\* ========================================================================
\* LiquidityFetcher._fetch_current_prices as concurrent tasks
\* (validator/liquidity_fetcher.py): one `_one(u)` task per distinct
\* sub-market, all handed to a single asyncio.gather
\* ========================================================================
\* settings.MAX_CONCURRENCY
MAX_CONCURRENCY == 5

\* The answers of the chain to one AlphaSqrtPrice query.
LookupAnswers == { FailedLookup, Lookup(Zero), Lookup(Rat(2, 1)) }

\* The `_one(u)` tasks that have sent their query and await its answer.
InFlight == { u \in DOMAIN one_pc : one_pc[u] = "in_flight" }

\* A call of _fetch_current_prices on 0 .. MaxLookups distinct sub-markets.
InitPrices ==
    /\ step = 0
    /\ IdleLiquidityFetcher
    /\ IdleReward
    /\ IdleScores
    /\ IdleThreads /\ IdleClient /\ weights = NoWeights
    /\ votes = << >>
    /\ vi = 1
    /\ raw = EmptyMap
    /\ total_stake = Zero
    /\ master_w = EmptyMap
    /\ pc = "idle"
    /\ price_subnets \in { 1 .. k : k \in 0 .. MaxLookups }
    /\ one_pc = << >>
    /\ one_result = << >>
    /\ gather_pc = "start"
    /\ gathered = << >>

\* `if not subnets: return prices`
PricesNoSubnets ==
    /\ gather_pc = "start"
    /\ price_subnets = {}
    /\ gather_pc' = "returned"
    /\ UNCHANGED << price_subnets, one_pc, one_result, gathered >>

\* `asyncio.gather(*(_one(u) for u in set(subnets)))`: every coroutine
\* becomes a task at once; nothing limits how many of them run.
PricesGather ==
    /\ gather_pc = "start"
    /\ price_subnets # {}
    /\ one_pc' = [ u \in price_subnets |-> "created" ]
    /\ gather_pc' = "gather"
    /\ UNCHANGED << price_subnets, one_result, gathered >>

\* `_one`: the task runs up to `await st.substrate.query(...)`.
OneQuery(u) ==
    /\ gather_pc = "gather"
    /\ one_pc[u] = "created"
    /\ one_pc' = [ one_pc EXCEPT ![u] = "in_flight" ]
    /\ UNCHANGED << price_subnets, one_result, gather_pc, gathered >>

\* `_one`: the answer arrives (or the query raises an Exception) and the
\* task returns `uid, P` or `uid, 0.0`.
OneReturns(u, answer) ==
    /\ gather_pc = "gather"
    /\ one_pc[u] = "in_flight"
    /\ one_pc' = [ one_pc EXCEPT ![u] = "returned" ]
    /\ one_result' = (u :> PriceOfLookup(answer)) @@ one_result
    /\ UNCHANGED << price_subnets, gather_pc, gathered >>

\* `for uid, P in results: if P > 0.0: prices[uid] = P`
PricesCollect ==
    /\ gather_pc = "gather"
    /\ \A u \in price_subnets : one_pc[u] = "returned"
    /\ gathered' = [ u \in { v \in price_subnets : RPos(one_result[v]) } |-> one_result[u] ]
    /\ gather_pc' = "returned"
    /\ UNCHANGED << price_subnets, one_pc, one_result >>

\* The awaiting task is cancelled while the gather is pending:
\* asyncio.CancelledError is a BaseException, `except Exception` in `_one`
\* does not catch it, the gather cancels its unfinished children and the
\* error leaves _fetch_current_prices (and fetch_and_store) without a map.
PricesCancelled ==
    /\ gather_pc = "gather"
    /\ \E u \in price_subnets : one_pc[u] # "returned"
    /\ one_pc' = [ u \in price_subnets |->
                     IF one_pc[u] = "returned" THEN "returned" ELSE "cancelled" ]
    /\ gather_pc' = "raised"
    /\ UNCHANGED << price_subnets, one_result, gathered >>

NextPrices ==
    /\ \/ PricesNoSubnets
       \/ PricesGather
       \/ \E u \in price_subnets : OneQuery(u)
       \/ \E u \in price_subnets : \E answer \in LookupAnswers : OneReturns(u, answer)
       \/ PricesCollect
       \/ PricesCancelled
    /\ UNCHANGED << voteVars, rewardVars, scoreVars, step, liqVars, threadVars,
                    clientVars, weights >>

SpecPrices == InitPrices /\ [][NextPrices]_vars

\* ========================================================================
\* The run thread of a validator: run_in_background_thread and
\* stop_run_thread (base/validator.py) around EpochValidatorNeuron.run
\* (neurons/neuron_validator.py)
\* ========================================================================
\* The threads that are inside `await self.forward()`.
InForward == { t \in DOMAIN threads : threads[t] = "forward" }

\* The threads that are inside a writer of self.scores: self.sync()
\* (resync_metagraph) or forward() (update_scores).
Writers == { t \in DOMAIN threads : threads[t] \in { "sync", "forward" } }

\* A validator after construction: `self.should_exit = False`,
\* `self.is_running = False`, `self.thread = None`.
InitThreads ==
    /\ step = 0
    /\ IdleLiquidityFetcher
    /\ IdleReward
    /\ IdleScores
    /\ IdlePrices /\ IdleClient /\ weights = NoWeights
    /\ votes = << >>
    /\ vi = 1
    /\ raw = EmptyMap
    /\ total_stake = Zero
    /\ master_w = EmptyMap
    /\ pc = "idle"
    /\ IdleThreads

\* run_in_background_thread: `if not self.is_running:` start a thread on
\* self.run.
RunInBackgroundThread ==
    /\ caller_pc = "ready"
    /\ ~ is_running
    /\ Len(threads) < MaxThreads
    /\ should_exit' = FALSE
    /\ threads' = Append(threads, "loop")
    /\ is_running' = TRUE
    /\ UNCHANGED caller_pc

\* stop_run_thread: `if self.is_running: self.should_exit = True`, then
\* `self.thread.join(5)` begins.
StopRunThreadJoin ==
    /\ caller_pc = "ready"
    /\ is_running
    /\ should_exit' = TRUE
    /\ caller_pc' = "join"
    /\ UNCHANGED << is_running, threads >>

\* stop_run_thread: `self.thread.join(5)` returns, because the thread has
\* ended or because the 5 seconds are over, and `self.is_running = False`.
StopRunThreadReturns ==
    /\ caller_pc = "join"
    /\ is_running' = FALSE
    /\ caller_pc' = "ready"
    /\ UNCHANGED << should_exit, threads >>

ThreadMoves(t, from, to) ==
    /\ threads[t] = from
    /\ threads' = [ threads EXCEPT ![t] = to ]
    /\ UNCHANGED << is_running, should_exit, caller_pc >>

\* `while not self.should_exit:`
ThreadLoopTest(t) ==
    IF should_exit THEN ThreadMoves(t, "loop", "exited")
    ELSE ThreadMoves(t, "loop", "sync")

\* `self.sync()` returns, or raises into the `except`.
ThreadSync(t) ==
    \/ ThreadMoves(t, "sync", "forward")
    \/ ThreadMoves(t, "sync", "sleep")

\* `await self.forward()` returns or raises; the thread then sleeps
\* (5 seconds after an error, and 10 to 20 minutes in any case).
ThreadForward(t) == ThreadMoves(t, "forward", "sleep")

\* `await asyncio.sleep(sleep_s)` is over.
ThreadWakes(t) == ThreadMoves(t, "sleep", "loop")

NextThreads ==
    /\ \/ RunInBackgroundThread
       \/ StopRunThreadJoin
       \/ StopRunThreadReturns
       \/ \E t \in DOMAIN threads : ThreadLoopTest(t)
       \/ \E t \in DOMAIN threads : ThreadSync(t)
       \/ \E t \in DOMAIN threads : ThreadForward(t)
       \/ \E t \in DOMAIN threads : ThreadWakes(t)
    /\ UNCHANGED << voteVars, rewardVars, scoreVars, step, liqVars, priceVars,
                    clientVars, weights >>

SpecThreads == InitThreads /\ [][NextThreads]_vars

\* ========================================================================
\* VoteAPIClient.get_latest_votes under its retry decorator (api/client.py)
\*   @backoff.on_exception(backoff.expo, httpx.HTTPError, max_tries=5,
\*                         jitter=None, factor=2)
\* ========================================================================
\* `max_tries=5`
max_tries == 5

\* `factor=2`
factor == 2

\* The subclasses of httpx.HTTPError an attempt can raise.
HTTPErrors == { "HTTPStatusError", "ConnectError", "TimeoutException" }

\* What /votes/latest can deliver when the request succeeds.
Payloads == { << >>, ExampleVotes }

\* backoff.expo with jitter=None: factor * 2 ** n seconds before retry
\* number n + 1.
Expo(n) == factor * RPow(Rat(2, 1), n)[1]

\* Mutant: the decorator gives up one failure later.
GivesUpLate(t) == t = max_tries + 1

\* backoff: `max_tries_exceeded = (tries == max_tries_value)`
GivesUp(t) == t = max_tries

\* One call of get_latest_votes, before its first attempt.
InitClient ==
    /\ step = 0
    /\ IdleLiquidityFetcher
    /\ IdleReward
    /\ IdleScores
    /\ IdlePrices /\ IdleThreads /\ weights = NoWeights
    /\ votes = << >>
    /\ vi = 1
    /\ raw = EmptyMap
    /\ total_stake = Zero
    /\ master_w = EmptyMap
    /\ pc = "idle"
    /\ tries = 0
    /\ attempts = << >>
    /\ waits = << >>
    /\ client_pc = "call"

\* An attempt succeeds: the decorator returns its votes at once.
ClientAttemptReturns(payload) ==
    /\ client_pc = "call"
    /\ tries' = tries + 1
    /\ attempts' = Append(attempts, "ok")
    /\ votes' = payload
    /\ client_pc' = "returned"
    /\ UNCHANGED waits

\* An attempt raises an httpx.HTTPError: the decorator re-raises it when
\* this was attempt max_tries, and sleeps before the next attempt
\* otherwise.
ClientAttemptHTTPError(err) ==
    /\ client_pc = "call"
    /\ tries' = tries + 1
    /\ attempts' = Append(attempts, err)
    /\ IF GivesUp(tries + 1)
         THEN client_pc' = "raised" /\ UNCHANGED waits
         ELSE client_pc' = "sleep" /\ waits' = Append(waits, Expo(Len(waits)))
    /\ UNCHANGED votes

\* An attempt raises ValueError (the JSON is not a list, or an item is not
\* a Vote): not an httpx.HTTPError, so it is not retried.
ClientAttemptValueError ==
    /\ client_pc = "call"
    /\ tries' = tries + 1
    /\ attempts' = Append(attempts, "ValueError")
    /\ client_pc' = "raised"
    /\ UNCHANGED << votes, waits >>

\* `time.sleep(seconds)` of the decorator is over.
ClientRetries ==
    /\ client_pc = "sleep"
    /\ client_pc' = "call"
    /\ UNCHANGED << votes, tries, attempts, waits >>

NextClient ==
    /\ \/ \E payload \in Payloads : ClientAttemptReturns(payload)
       \/ \E err \in HTTPErrors : ClientAttemptHTTPError(err)
       \/ ClientAttemptValueError
       \/ ClientRetries
    /\ UNCHANGED << vi, raw, total_stake, master_w, pc, rewardVars, scoreVars, step,
                    liqVars, priceVars, threadVars, weights >>

SpecClient == InitClient /\ [][NextClient]_vars

\* ========================================================================
\* The burn validator (neurons/burn_validator.py) on the run loop of
\* BaseValidatorNeuron (base/validator.py)
\* ========================================================================
\* `range(0, 256)`: the number of uids forward() names, whatever the
\* metagraph holds. The model scales 256 down to 2, so that universes
\* below, at and above it are within MaxN.
BurnRange == 2

\* `miner_uids = list(range(0, 256))`
BurnUids == [ j \in 1 .. BurnRange |-> j - 1 ]

\* `weights = [1.0 if uid == 0 else 0.0 for uid in miner_uids]`
BurnWeights == [ j \in 1 .. BurnRange |-> IF BurnUids[j] = 0 THEN One ELSE Zero ]

RAbs(x) == << Abs(x[1]), x[2] >>

\* set_weights: `norm = np.linalg.norm(self.scores, ord=1, ...) or 1.0`
\* and `raw_weights = self.scores / norm`.
RawWeights(sc) ==
    LET l1 == SumMap([ i \in DOMAIN sc |-> RAbs(sc[i]) ])
        norm == IF l1 = Zero THEN One ELSE l1
    IN  [ i \in DOMAIN sc |-> RDiv(sc[i], norm) ]

\* forward() of the burn validator on a metagraph that holds every uid it
\* names: the EMA update, then set_weights.
BurnForward ==
    /\ pc = "idle"
    /\ \A j \in 1 .. BurnRange : BurnUids[j] \in DOMAIN scores
    /\ ApplyUpdate(BurnWeights, BurnUids)
    /\ weights' = RawWeights(scores')
    /\ UNCHANGED pc

\* forward() of the burn validator on a smaller metagraph:
\* `scattered[uids] = rewards` raises IndexError, set_weights is not
\* reached, and run() logs the error and ends (`except Exception` is
\* outside its `while`).
BurnForwardIndexError ==
    /\ pc = "idle"
    /\ \E j \in 1 .. BurnRange : BurnUids[j] \notin DOMAIN scores
    /\ NoUpdate(BurnWeights, BurnUids, "IndexError")
    /\ pc' = "ended"
    /\ UNCHANGED weights

\* `self.sync()` of run(): resync_metagraph.
BurnSync ==
    /\ pc = "idle"
    /\ ResyncUnchanged \/ ResyncChanged
    /\ UNCHANGED << pc, weights >>

\* run() goes round its loop.
BurnContinue ==
    /\ pc = "idle"
    /\ Continue
    /\ UNCHANGED << pc, weights >>

NextBurn ==
    /\ \/ BurnSync
       \/ BurnForward
       \/ BurnForwardIndexError
       \/ BurnContinue
    /\ UNCHANGED << votes, vi, raw, total_stake, master_w, rewardVars, step, liqVars,
                    priceVars, threadVars, clientVars >>

SpecBurn == InitScores /\ [][NextBurn]_vars

\* ========================================================================
\* Properties of the reward computation (checked under SpecReward)
\* ========================================================================
\* T_m: the total liquidity of sub-market m.
TotalLp(lp_map, m) == IF m \in DOMAIN lp_map THEN SumMap(lp_map[m]) ELSE Zero

\* Sub-market m has positive master weight and positive total liquidity.
Active(master, lp_map, m) ==
    /\ m \in DOMAIN master
    /\ RPos(master[m])
    /\ RPos(TotalLp(lp_map, m))

SomeActive(master, lp_map) == \E m \in DOMAIN master : Active(master, lp_map, m)

\* Every slot named by the universe or by the liquidity map.
AllSlots == Uids(metagraph_n) \cup UNION { DOMAIN liquidity[m] : m \in DOMAIN liquidity }

NonNegative(lp_map) ==
    \A m \in DOMAIN lp_map : \A u \in DOMAIN lp_map[m] : RLeq(Zero, lp_map[m][u])

\* liquidity[m][slot] / T_m * master[m] for one sub-market, 0 when inactive.
Contribution(master, m, slot) ==
    IF Active(master, liquidity, m)
    THEN RMul(RDiv(Get(liquidity[m], slot), TotalLp(liquidity, m)), master[m])
    ELSE Zero

RECURSIVE SlotRawOver(_, _, _)
SlotRawOver(master, ms, slot) ==
    IF ms = {} THEN Zero
    ELSE LET m == CHOOSE x \in ms : TRUE
         IN  RAdd(Contribution(master, m, slot), SlotRawOver(master, ms \ {m}, slot))

\* The raw reward of a slot: the sum of its contributions over sub-markets.
SlotRaw(master, slot) == SlotRawOver(master, DOMAIN master, slot)

RECURSIVE SlotRawSum(_, _)
SlotRawSum(master, slots) ==
    IF slots = {} THEN Zero
    ELSE LET u == CHOOSE x \in slots : TRUE
         IN  RAdd(SlotRaw(master, u), SlotRawSum(master, slots \ {u}))

\* The general formula of C1 for a master vector: every slot gets its raw
\* reward divided by the sum of the raw rewards of all slots (a slot absent
\* from the returned map has value 0).
RewardFormulaHolds(master) ==
    \A slot \in AllSlots :
        Get(rewards, slot) = RDiv(SlotRaw(master, slot), SlotRawSum(master, AllSlots))

\* C1 as stated: for every universe, votes and non-negative liquidity with
\* an active sub-market, compute gives each slot its share by the formula;
\* stakes {100, 300} with weights {sub1:1.0} and {sub1:0.5, sub2:0.5} give
\* master {sub1: 0.875, sub2: 0.125} and rewards {A: 0.34375, B: 0.65625}.
C1_AsStated ==
    pc = "done" =>
        /\ (NonNegative(liquidity)
              /\ SomeActive(BuildMasterVector(votes), liquidity))
            => RewardFormulaHolds(BuildMasterVector(votes))
        /\ (votes = ExampleVotes /\ liquidity = ExampleLiquidity)
            => /\ master_w = (1 :> Rat(7, 8) @@ 2 :> Rat(1, 8))
               /\ rewards = (0 :> Rat(11, 32) @@ 1 :> Rat(21, 32))

\* C1 amended: for every non-empty universe, votes and non-negative
\* liquidity with an active sub-market, compute gives each slot named by
\* the universe or the liquidity map its raw reward divided by the sum of
\* the raw rewards of all those slots; stakes 100 and 300 with weights
\* {sub1:1.0} and {sub1:0.5, sub2:0.5} respectively give master
\* {sub1: 0.625, sub2: 0.375} and rewards {A: 0.53125, B: 0.46875}; the
\* figures 0.875/0.125 and 0.34375/0.65625 belong to stakes 300 and 100.
C1_RewardFormula ==
    pc = "done" =>
        /\ (metagraph_n > 0 /\ NonNegative(liquidity)
              /\ SomeActive(master_w, liquidity))
            => RewardFormulaHolds(master_w)
        /\ (votes = ExampleVotes /\ liquidity = ExampleLiquidity)
            => /\ master_w = (1 :> Rat(5, 8) @@ 2 :> Rat(3, 8))
               /\ rewards = (0 :> Rat(17, 32) @@ 1 :> Rat(15, 32))
        /\ (votes = SwappedVotes /\ liquidity = ExampleLiquidity)
            => /\ master_w = (1 :> Rat(7, 8) @@ 2 :> Rat(1, 8))
               /\ rewards = (0 :> Rat(11, 32) @@ 1 :> Rat(21, 32))

\* Witness of C1: a finished computation on bounded inputs in which both
\* sub-markets are active with different totals and a slot has liquidity
\* in both.
C1_Witness ==
    /\ pc = "done"
    /\ metagraph_n > 0
    /\ Len(votes) = 2
    /\ votes[1].voter_stake # votes[2].voter_stake
    /\ NonNegative(liquidity)
    /\ \A m \in Subnets : Active(master_w, liquidity, m)
    /\ TotalLp(liquidity, 1) # TotalLp(liquidity, 2)
    /\ master_w[1] # master_w[2]
    /\ \A m \in Subnets : RPos(Get(liquidity[m], 0))
    /\ RPos(Get(rewards, 1))

\* C2: whenever some sub-market has positive master weight and positive
\* total liquidity and the universe is not empty, the values of the map
\* returned by compute are all >= 0 and sum to 1.
C2_RewardsSumToOne ==
    (pc = "done" /\ metagraph_n > 0 /\ SomeActive(master_w, liquidity))
        => /\ \A uid \in DOMAIN rewards : RLeq(Zero, rewards[uid])
           /\ SumMap(rewards) = One

\* Witness of C2: a normalised result over two slots where one voted
\* sub-market has no liquidity and a negative valuation was ignored.
C2_Witness ==
    /\ pc = "done"
    /\ metagraph_n > 0
    /\ SomeActive(master_w, liquidity)
    /\ \E m \in DOMAIN master_w :
           RPos(master_w[m]) /\ ~ RPos(TotalLp(liquidity, m))
    /\ ~ NonNegative(liquidity)
    /\ Cardinality(DOMAIN rewards) = 2
    /\ SumMap(rewards) = One

\* C3: when no sub-market has both positive master weight and positive
\* total liquidity (the raw rewards sum to 0), compute returns a map whose
\* key set is the universe and whose every value is 1/|universe|.
C3_UniformFallback ==
    (pc = "done" /\ ~ SomeActive(BuildMasterVector(votes), liquidity))
        => /\ DOMAIN rewards = Uids(metagraph_n)
           /\ \A uid \in DOMAIN rewards : rewards[uid] = Rat(1, metagraph_n)

\* Witness of C3: votes for one sub-market, liquidity only in the other,
\* and a uniform result over a universe of two slots.
C3_Witness ==
    /\ pc = "done"
    /\ metagraph_n = 2
    /\ \E m \in DOMAIN master_w : RPos(master_w[m])
    /\ \E m \in DOMAIN liquidity : RPos(TotalLp(liquidity, m))
    /\ ~ SomeActive(master_w, liquidity)
    /\ rewards = (0 :> Rat(1, 2) @@ 1 :> Rat(1, 2))

\* ========================================================================
\* Properties of the vote aggregation (checked under SpecVotes)
\* ========================================================================
\* C4: for a non-empty vote list whose total stake (the stake accumulated
\* from the votes that count) is > 0, the values of the master vector are
\* all >= 0 and sum to 1.
C4_MasterSumsToOne ==
    (pc = "done" /\ Len(votes) > 0 /\ RPos(total_stake))
        => /\ \A sid \in DOMAIN master_w : RLeq(Zero, master_w[sid])
           /\ SumMap(master_w) = One

\* Witness of C4: two counted votes of different stake and different
\* weights, giving two different positive master weights.
C4_Witness ==
    /\ pc = "done"
    /\ Len(votes) = 2
    /\ total_stake = Rat(4, 1)
    /\ DOMAIN master_w = Subnets
    /\ RPos(master_w[1]) /\ RPos(master_w[2])
    /\ master_w[1] # master_w[2]

AllZeroStake(vs) == \A i \in 1 .. Len(vs) : vs[i].voter_stake = Zero

\* C5: the aggregation returns the empty map for an empty vote list and
\* for a vote list in which every vote has stake 0.
C5_NoEvidenceEmptyMap ==
    (pc = "done" /\ AllZeroStake(votes)) => master_w = EmptyMap

\* Witness of C5: a finished aggregation of two zero-stake votes, one of
\* them with a positive weight.
C5_Witness ==
    /\ pc = "done"
    /\ Len(votes) = 2
    /\ AllZeroStake(votes)
    /\ \E i \in 1 .. 2 : \E sid \in DOMAIN votes[i].weights :
           RPos(votes[i].weights[sid])
    /\ master_w = EmptyMap

\* A vote the aggregation must reject: stake <= 0, empty weights, or
\* weights summing to <= 0.
Rejected(v) ==
    \/ v.voter_stake[1] <= 0
    \/ DOMAIN v.weights = {}
    \/ SumMap(v.weights)[1] <= 0

RemoveAt(vs, i) == [ j \in 1 .. (Len(vs) - 1) |-> IF j < i THEN vs[j] ELSE vs[j + 1] ]

\* C6: a rejected vote is rejected alone: at every point of the loop the
\* sub-market totals and the total stake are those accumulated from the
\* list without that vote, and the returned master vector is the one of
\* the list without that vote.
C6_RejectedVoteAlone ==
    \A i \in 1 .. Len(votes) :
        Rejected(votes[i]) =>
            LET without == RemoveAt(votes, i)
                seen == IF i < vi THEN vi - 2 ELSE vi - 1
                acc == FoldVotes(without, seen)
            IN  /\ raw = acc.raw
                /\ total_stake = acc.total_stake
                /\ pc = "done" => master_w = BuildMasterVector(without)

\* Witness of C6: a finished aggregation with a negative-stake vote that
\* carries positive weights, next to a counted vote.
C6_Witness ==
    /\ pc = "done"
    /\ Len(votes) = 2
    /\ votes[1].voter_stake[1] < 0
    /\ \E sid \in DOMAIN votes[1].weights : RPos(votes[1].weights[sid])
    /\ Qualifies(votes[2])
    /\ RPos(total_stake)
    /\ master_w # EmptyMap

\* ========================================================================
\* Properties of the score vector (checked under SpecScores)
\* ========================================================================
\* The reward a call gives for slot i (the last one when the slot is named
\* more than once), 0 when the call names no reward for it.
Given(c, i) ==
    LET js == { j \in 1 .. Len(c.uids) : j <= Len(c.rewards) /\ c.uids[j] = i }
    IN  IF js = {} THEN Zero
        ELSE c.rewards[CHOOSE j \in js : \A l \in js : l <= j]

\* score'[i] = 0.1 * scattered[i] + 0.9 * score[i] for every slot.
EmaFormulaHolds ==
    \A i \in DOMAIN scores :
        scores[i] = RAdd(RMul(Rat(1, 10), Given(call, i)),
                         RMul(Rat(9, 10), prev_scores[i]))

C8_ZeroRewardDecay ==
    zero_run >= 1 =>
        \A i \in DOMAIN scores :
            /\ scores[i] = RMul(base_scores[i], RPow(Rat(9, 10), zero_run))
            /\ RPos(base_scores[i]) => RPos(scores[i])

\* Witness of C8: two consecutive all-zero updates on a positive score.
C8_Witness ==
    /\ zero_run = 2
    /\ \E i \in DOMAIN scores :
          /\ RPos(base_scores[i])
          /\ scores[i] = RMul(Rat(81, 100), base_scores[i])

\* C9: a resync zeroes the score of exactly the slots whose identity
\* differs from the stored snapshot, leaves the score of every other
\* existing slot unchanged, and the stored snapshot always is the binding
\* seen at the last resync.
C9_ResyncZeroesRebound ==
    /\ hotkeys = HotkeysOf(axons)
    /\ op = "resync" =>
          \A uid \in DOMAIN prev_hotkeys :
              /\ prev_hotkeys[uid] # hotkeys[uid] => scores[uid] = Zero
              /\ prev_hotkeys[uid] = hotkeys[uid] => scores[uid] = prev_scores[uid]

\* Witness of C9: a resync that rebinds one slot of positive score and
\* keeps another slot of positive score.
C9_Witness ==
    /\ op = "resync"
    /\ \E u, v \in DOMAIN prev_hotkeys :
          /\ prev_hotkeys[u] # hotkeys[u]
          /\ RPos(prev_scores[u])
          /\ scores[u] = Zero
          /\ prev_hotkeys[v] = hotkeys[v]
          /\ RPos(scores[v])

\* C10: a resync in which the universe grew from n to m > n slots leaves
\* a score vector of length m, the scores of the slots below n whose
\* identity is unchanged as they were, and the slots n..m-1 at 0.
C10_ResyncGrowth ==
    (op = "resync" /\ Size(prev_hotkeys) < Size(axons)) =>
        /\ DOMAIN scores = Uids(Size(axons))
        /\ \A uid \in DOMAIN prev_hotkeys :
              prev_hotkeys[uid] = hotkeys[uid] => scores[uid] = prev_scores[uid]
        /\ \A uid \in Uids(Size(axons)) \ DOMAIN prev_hotkeys : scores[uid] = Zero

\* Witness of C10: a resync that grew the universe while slot 0 kept its
\* identity and its positive score.
C10_Witness ==
    /\ op = "resync"
    /\ Size(prev_hotkeys) < Size(axons)
    /\ prev_hotkeys[0] = hotkeys[0]
    /\ RPos(prev_scores[0])
    /\ scores[0] = prev_scores[0]
    /\ scores[Size(axons) - 1] = Zero

\* C11: in every state reached by construction, resyncs and updates the
\* score vector has one entry per slot of the current universe, and its
\* length never decreases from one state to the next.
C11_ScoresLength ==
    /\ [](DOMAIN scores = Uids(Size(axons)))
    /\ [][Size(scores') >= Size(scores)]_vars

\* Witness of C11: an update applied after a resync that grew the universe
\* to two slots, the vector having two entries.
C11_Witness ==
    /\ op = "update_scores"
    /\ outcome = "ok"
    /\ Size(axons) = 2
    /\ Size(prev_scores) = 2
    /\ DOMAIN scores = {0, 1}
    /\ RPos(scores[1])
    /\ updates >= 2

\* ========================================================================
\* Properties of update_scores as a method (checked under SpecUpdates and
\* SpecNonFinite)
\* ========================================================================
\* C12 as stated: update_scores with a non-empty reward that names fewer
\* slots than the universe, more slots, or slots outside it, never raises:
\* it completes, ignores the extra entries and treats the missing ones as
\* zero.
C12_NeverRaises ==
    (op = "update_scores" /\ Len(call.rewards) > 0 /\ Len(call.uids) > 0)
        => (outcome = "ok" /\ EmaFormulaHolds)

\* The rewards of a call with every non-finite value set to 0.
ZeroNonFinite(rs) == [ j \in 1 .. Len(rs) |-> IF IsFinite(rs[j]) THEN rs[j] ELSE Zero ]

\* C13 as stated: every NaN, +infinity or -infinity of the reward is
\* replaced with 0 before the EMA update: the scores after an update hold
\* no NaN and are those of the same update with these values set to 0.
C13_NonFiniteAsZero ==
    (op = "update_scores" /\ outcome = "ok") =>
        /\ \A i \in DOMAIN scores : scores[i] # NaN
        /\ scores = Ema(Scatter(prev_scores, call.uids, ZeroNonFinite(call.rewards),
                                Len(call.rewards)),
                        prev_scores)

\* ========================================================================
\* Properties of a period (checked under SpecPeriod)
\* ========================================================================
\* The iteration ended in an exception: sync() or forward() raised.
PeriodFailed == op \in { "sync", "forward" }

\* C14: a period whose vote fetch or chain query fails performs no score
\* update (the scores after the failed run are the scores before it), the
\* loop does not stop (the step is counted and control is back at the top
\* of the loop), and the next period starts the pipeline with the sync.
C14_FailedPeriodNoUpdate ==
    /\ [](PeriodFailed => (outcome # "ok" /\ scores = prev_scores /\ pc = "idle"))
    /\ [][PeriodFailed' => (step' = step + 1 /\ updates' = updates
                               /\ scores' = scores)]_vars
    /\ [][PeriodFailed => (op' = "idle" /\ pc' = "idle" /\ scores' = scores
                              /\ updates' = updates)]_vars
    /\ [][(pc = "idle" /\ op = "idle") => (pc' = "synced" \/ op' = "sync")]_vars

\* Witness of C14: the liquidity fetch of a period fails after the votes
\* arrived, in a period that follows one with an update, and the scores
\* earned before are still there.
C14_Witness ==
    /\ op = "forward"
    /\ outcome = "ChainError"
    /\ votes # << >>
    /\ step >= 2
    /\ updates >= 1
    /\ \E i \in DOMAIN scores : RPos(scores[i])
    /\ scores = prev_scores

\* The period has no evidence: no sub-market has both a positive master
\* weight and positive liquidity.
ZeroEvidence(vs, lp_map) == ~ SomeActive(BuildMasterVector(vs), lp_map)

\* C15: a period without evidence whose fetches succeed ends with exactly
\* one EMA update whose reward is 1/|universe| for every slot of the
\* universe; it is not skipped and update_scores does not raise.
C15_ZeroEvidenceUniformUpdate ==
    /\ []((op = "update_scores" /\ ZeroEvidence(votes, liquidity)) =>
            /\ outcome = "ok"
            /\ call.uids = UidList(Size(axons))
            /\ call.rewards = [ j \in 1 .. Size(axons) |-> Rat(1, Size(axons)) ]
            /\ \A i \in DOMAIN scores :
                  scores[i] = RAdd(RMul(Rat(1, 10), Rat(1, Size(axons))),
                                   RMul(Rat(9, 10), prev_scores[i])))
    /\ [][(pc = "synced" /\ op = "idle" /\ op' # "forward"
             /\ ZeroEvidence(votes', liquidity'))
            => (op' = "update_scores" /\ outcome' = "ok" /\ updates' = updates + 1
                  /\ pc' = "idle")]_vars

\* Witness of C15: a period with votes for sub-market 1 and liquidity only
\* in sub-market 2, over two slots of which one had a positive score.
C15_Witness ==
    /\ op = "update_scores"
    /\ ZeroEvidence(votes, liquidity)
    /\ votes # << >>
    /\ liquidity # EmptyMap
    /\ \E m \in DOMAIN master_w : RPos(master_w[m])
    /\ Size(axons) = 2
    /\ call.rewards = << Rat(1, 2), Rat(1, 2) >>
    /\ \E i \in DOMAIN scores : RPos(prev_scores[i]) /\ prev_scores[0] # prev_scores[1]

\* ========================================================================
\* Properties of the liquidity aggregation (checked under SpecLiquidity and
\* SpecPositions)
\* ========================================================================
\* The price of sub-market m is unusable: the lookup failed, or the price
\* is missing, not finite or not > 0.
NoUsablePrice(m) ==
    \/ ~ lookups[m].ok
    \/ ~ IsFinite(Square(lookups[m].sqrt_p))
    \/ Square(lookups[m].sqrt_p)[1] <= 0

\* The LiquiditySubnet objects of a list that are not of sub-market m.
WithoutSubnet(subnets, m) == SelectSeq(subnets, LAMBDA ls : ls.netuid # m)

\* How many of the first k objects are not of sub-market m.
SeenWithout(subnets, k, m) ==
    Cardinality({ j \in 1 .. k : subnets[j].netuid # m })

\* C16: a sub-market without a usable price contributes no entry and does
\* not abort the aggregation: the loop goes on to the end, and the sums
\* and the returned entries are those of the input without that
\* sub-market.
C16_BadPriceIsolated ==
    /\ [](pc \in { "loop", "done" } =>
            \A m \in NetuidsOf(liquidity_subnets) :
                NoUsablePrice(m) =>
                    LET without == WithoutSubnet(liquidity_subnets, m)
                        prices == FetchCurrentPrices(NetuidsOf(without), lookups)
                    IN  /\ aggregated =
                              AggregateAll(without,
                                           SeenWithout(liquidity_subnets, lsi - 1, m),
                                           prices, COUNT_ONLY_IN_RANGE, MIN_RELATIVE_WIDTH)
                        /\ (pc = "done" /\ netuid # 0) =>
                              /\ m \notin DOMAIN liq_map
                              /\ liq_map = FetchAndStore(without, lookups, primary_uid_map,
                                                         COUNT_ONLY_IN_RANGE,
                                                         MIN_RELATIVE_WIDTH))
    /\ [][pc = "loop" => pc' \in { "loop", "done" }]_vars

\* Witness of C16: sub-market 1 with a failed price lookup and positions
\* worth something comes first, sub-market 2 follows with a price, and the
\* returned map holds the two entries of sub-market 2 only.
C16_Witness ==
    /\ pc = "done"
    /\ netuid # 0
    /\ Len(liquidity_subnets) = 2
    /\ liquidity_subnets[1].netuid = 1
    /\ liquidity_subnets[1].coldkey_positions["ckA"] = << GoodPosition >>
    /\ ~ lookups[1].ok
    /\ liquidity_subnets[2].netuid = 2
    /\ DOMAIN liq_map = {2}
    /\ DOMAIN liq_map[2] = {0, 1}

\* The positions of the LiquiditySubnet objects the loop has been through.
Processed ==
    UNION { UNION { { << i, ck, k >> :
                        k \in 1 .. Len(liquidity_subnets[i].coldkey_positions[ck]) } :
                      ck \in DOMAIN liquidity_subnets[i].coldkey_positions } :
              i \in 1 .. (lsi - 1) }

PositionAt(t) == liquidity_subnets[t[1]].coldkey_positions[t[2]][t[3]]

\* The current price of the sub-market of a processed position.
PriceAt(t) == PriceFor(price_map, liquidity_subnets[t[1]])

RECURSIVE TaoOfAll(_)
TaoOfAll(ts) ==
    IF ts = {} THEN Zero
    ELSE LET t == CHOOSE x \in ts : TRUE
         IN  RAdd(PositionAt(t).tao, TaoOfAll(ts \ {t}))

\* The sum of the valuations of the accepted positions of coldkey ck in
\* sub-market m.
AcceptedTao(ck, m) ==
    TaoOfAll({ t \in accepted : t[2] = ck /\ liquidity_subnets[t[1]].netuid = m })

\* price_high <= price_low, both readable and finite.
Degenerate(pos) ==
    /\ pos.readable
    /\ IsFinite(pos.price_low) /\ IsFinite(pos.price_high)
    /\ RLeq(pos.price_high, pos.price_low)

\* C17: a position with price_high <= price_low is never accepted and adds
\* nothing to the sum of its coldkey, whatever the price and the policy.
C17_DegenerateDiscarded ==
    /\ \A t \in Processed : Degenerate(PositionAt(t)) => t \notin accepted
    /\ \A ck \in Coldkeys : \A m \in LiqSubnets :
          Get(aggregated, << ck, m >>) = AcceptedTao(ck, m)

\* Witness of C17: a zero-width band at the current price, after a good
\* position, with the in-range filter and the width filter switched off;
\* the sum is the value of the good position.
C17_Witness ==
    /\ pc = "done"
    /\ netuid # 0
    /\ ~ COUNT_ONLY_IN_RANGE
    /\ MIN_RELATIVE_WIDTH = Zero
    /\ \E t \in Processed :
          /\ PositionAt(t).price_low = PositionAt(t).price_high
          /\ PositionAt(t).price_low = PriceAt(t)
          /\ t \notin accepted
    /\ << 1, "ckA", 1 >> \in accepted
    /\ aggregated[<< "ckA", 1 >>] = GoodPosition.tao

\* low < P < high
StrictlyInside(pos, P) == RLess(pos.price_low, P) /\ RLess(P, pos.price_high)

\* C18: with a minimum relative width > 0, a position with valid bounds
\* that is in range at the price P (and whose valuation succeeds) is
\* accepted if and only if (price_high - price_low) / P >= min_width.
C18_MinWidthThreshold ==
    RPos(MIN_RELATIVE_WIDTH) =>
        \A t \in Processed :
            LET pos == PositionAt(t)
                P == PriceAt(t)
            IN  (ValidPrice(P) /\ pos.readable /\ pos.valuation_ok
                   /\ IsFinite(pos.price_low) /\ IsFinite(pos.price_high)
                   /\ RPos(pos.price_low) /\ RLess(pos.price_low, pos.price_high)
                   /\ StrictlyInside(pos, P))
                => (t \in accepted <=>
                      RLeq(MIN_RELATIVE_WIDTH,
                           RDiv(RSub(pos.price_high, pos.price_low), P)))

\* Witness of C18: at price 4 and minimum width 1 the band 2..6 (width
\* exactly 1) is accepted and the band 3..5 in the same list is discarded.
C18_Witness ==
    /\ pc = "done"
    /\ netuid # 0
    /\ MIN_RELATIVE_WIDTH = One
    /\ PriceFor(price_map, liquidity_subnets[1]) = Rat(4, 1)
    /\ liquidity_subnets[1].coldkey_positions["ckA"]
          = << GoodPosition, Pos(Rat(3, 1), Rat(5, 1), One) >>
    /\ accepted = { << 1, "ckA", 1 >> }

\* C19: with COUNT_ONLY_IN_RANGE a position is accepted only if the price
\* lies strictly between its bounds (a price equal to a bound or outside
\* the band discards it); without the flag a position with valid bounds
\* that passes the width filter (and whose valuation succeeds) is accepted
\* wherever the price is.
C19_OnlyInRange ==
    \A t \in Processed :
        LET pos == PositionAt(t)
            P == PriceAt(t)
        IN  /\ (COUNT_ONLY_IN_RANGE /\ t \in accepted) => StrictlyInside(pos, P)
            /\ (~ COUNT_ONLY_IN_RANGE /\ ValidPrice(P) /\ pos.readable
                   /\ pos.valuation_ok
                   /\ IsFinite(pos.price_low) /\ IsFinite(pos.price_high)
                   /\ RPos(pos.price_low) /\ RLess(pos.price_low, pos.price_high)
                   /\ (RPos(MIN_RELATIVE_WIDTH) =>
                          RLeq(MIN_RELATIVE_WIDTH,
                               RDiv(RSub(pos.price_high, pos.price_low), P))))
                => t \in accepted

\* Witness of C19: with the flag on, a band that begins at the current
\* price is discarded next to an accepted one.
C19_Witness ==
    /\ pc = "done"
    /\ netuid # 0
    /\ COUNT_ONLY_IN_RANGE
    /\ MIN_RELATIVE_WIDTH = Zero
    /\ \E t \in Processed :
          /\ PositionAt(t).price_low = PriceAt(t)
          /\ RLess(PriceAt(t), PositionAt(t).price_high)
          /\ t \notin accepted
    /\ << 1, "ckA", 1 >> \in accepted

\* C20: every entry of the returned map is > 0, is the sum of the
\* valuations of the accepted positions of one coldkey in that sub-market
\* and is keyed by the uid of that coldkey; a coldkey without a uid, or
\* whose sum is not > 0, has no entry.
C20_EntriesArePositiveSums ==
    (pc = "done" /\ netuid # 0) =>
        /\ \A m \in DOMAIN liq_map : \A u \in DOMAIN liq_map[m] :
              /\ RPos(liq_map[m][u])
              /\ \E ck \in DOMAIN primary_uid_map :
                    /\ primary_uid_map[ck] = u
                    /\ liq_map[m][u] = AcceptedTao(ck, m)
        /\ \A m \in LiqSubnets :
              (IF m \in DOMAIN liq_map THEN DOMAIN liq_map[m] ELSE {})
                = { primary_uid_map[ck] :
                      ck \in { c \in DOMAIN primary_uid_map : RPos(AcceptedTao(c, m)) } }

\* Witness of C20: coldkey ckA has two accepted positions worth 4 together
\* but no uid, coldkey ckB has uid 0: the map holds the entry of ckB only.
C20_Witness ==
    /\ pc = "done"
    /\ netuid # 0
    /\ primary_uid_map = ("ckB" :> 0)
    /\ Len(liquidity_subnets) = 1
    /\ Cardinality({ t \in accepted : t[2] = "ckA" }) = 2
    /\ AcceptedTao("ckA", 1) = Rat(4, 1)
    /\ liq_map = (1 :> (0 :> Rat(3, 1)))

\* ========================================================================
\* Properties of the concurrent price lookups (checked under SpecPrices)
\* ========================================================================
\* C21: the number of price lookups in flight at the same time never
\* exceeds MAX_CONCURRENCY, for any number of distinct sub-markets.
C21_BoundedLookups == Cardinality(InFlight) <= MAX_CONCURRENCY

\* The prices of the lookups that finished, as _fetch_current_prices
\* would return them.
FinishedPrices ==
    [ u \in { v \in DOMAIN one_result : RPos(one_result[v]) } |-> one_result[u] ]

\* C24: when the lookups of the period are cancelled as a group, the
\* cancelled lookups leave their sub-markets without a price and the
\* fetch still returns the prices of the lookups that finished, so that
\* the aggregation completes instead of failing.
C24_CancelDegrades ==
    (\E u \in DOMAIN one_pc : one_pc[u] = "cancelled") =>
        /\ gather_pc = "returned"
        /\ gathered = FinishedPrices
        /\ \A u \in DOMAIN one_pc : one_pc[u] = "cancelled" => u \notin DOMAIN gathered

\* ========================================================================
\* Properties of the run thread (checked under SpecThreads)
\* ========================================================================
\* C22: over any sequence of run_in_background_thread, stop_run_thread and
\* loop iterations, at most one forward() is in progress and at most one
\* thread is inside a writer of the score vector.
C22_OneRunAtATime == Cardinality(InForward) <= 1 /\ Cardinality(Writers) <= 1

\* ========================================================================
\* Properties of the vote client (checked under SpecClient)
\* ========================================================================
\* The attempts that ended in an httpx.HTTPError.
HTTPFailures == { k \in DOMAIN attempts : attempts[k] \in HTTPErrors }

\* C23: one call of get_latest_votes makes at most 5 attempts; it returns
\* the votes of the first attempt that succeeds, after HTTP failures only
\* and without a further attempt; an HTTP error reaches the caller only
\* when it was the 5th consecutive failing attempt; the waits between the
\* attempts double (2, 4, 8, 16 seconds).
C23_RetriesThenPropagates ==
    /\ [](/\ tries <= 5
          /\ Len(attempts) = tries
          /\ client_pc = "returned" =>
                /\ attempts[tries] = "ok"
                /\ HTTPFailures = 1 .. (tries - 1)
          /\ (client_pc = "raised" /\ attempts[tries] \in HTTPErrors) =>
                /\ tries = 5
                /\ HTTPFailures = 1 .. 5
          /\ Len(waits) <= 4
          /\ \A k \in DOMAIN waits :
                waits[k] = (IF k = 1 THEN 2 ELSE 2 * waits[k - 1])
          /\ client_pc \in { "call", "sleep" } => Len(waits) = Cardinality(HTTPFailures))
    /\ [][client_pc' = "returned" => votes' \in Payloads]_vars
    /\ [][(client_pc = "returned" \/ client_pc = "raised")
              => (tries' = tries /\ votes' = votes)]_vars

\* Witness of C23: the fifth attempt fails like the four before it and
\* the error reaches the caller, after waits of 2, 4, 8 and 16 seconds.
C23_Witness ==
    /\ client_pc = "raised"
    /\ tries = 5
    /\ HTTPFailures = 1 .. 5
    /\ waits = << 2, 4, 8, 16 >>

\* ========================================================================
\* Properties of the burn validator (checked under SpecBurn)
\* ========================================================================
\* The weight vector with everything on uid 0.
AllOnUidZero(n) == [ i \in Uids(n) |-> IF i = 0 THEN One ELSE Zero ]

\* C25: after every forward() of the burn validator, whatever the size of
\* the universe, the update has been applied, the score of every slot
\* other than 0 is 0 and the weights set_weights emits are 1 for uid 0
\* and 0 for every other uid.
C25_FullWeightToUidZero ==
    op = "update_scores" =>
        /\ outcome = "ok"
        /\ \A i \in DOMAIN scores : i # 0 => scores[i] = Zero
        /\ weights = AllOnUidZero(Size(axons))

\* ========================================================================
\* Properties of the hand-over from forward() to update_scores (checked
\* under SpecPeriod)
\* ========================================================================
\* The mass compute gave to the slots of the universe of n slots.
InUniverseMass(n, uid_scores) ==
    SumOver(uid_scores, DOMAIN uid_scores \cap Uids(n))

\* C26: for every non-empty universe of n slots and every reward map of
\* compute, also one that names slots outside 0..n-1, forward() hands
\* update_scores n rewards paired with the uids 0..n-1: the entries of
\* the slots outside the universe are dropped, every value is >= 0, the
\* values sum to 1 (the in-universe entries divided by their sum, or
\* 1/n each when none of them is positive); update_scores is called once
\* per forward(), after both fetches and the reward computation.
C26_ForwardHandsOverUniverse ==
    /\ [](op = "update_scores" =>
            LET n == Size(axons)
                mass == InUniverseMass(n, rewards)
            IN  /\ n > 0
                /\ outcome = "ok"
                /\ rewards = Compute(n, votes, liquidity)
                /\ Len(call.rewards) = n
                /\ call.uids = UidList(n)
                /\ \A j \in 1 .. n :
                      /\ RLeq(Zero, call.rewards[j])
                      /\ call.rewards[j] =
                            (IF RPos(mass) THEN RDiv(Get(rewards, j - 1), mass)
                             ELSE Rat(1, n))
                /\ SumMap(call.rewards) = One)
    /\ [][op' = "update_scores" =>
             (pc = "synced" /\ pc' = "idle" /\ step' = step + 1
                /\ updates' = updates + 1)]_vars
    /\ [][updates' # updates => (op' = "update_scores" /\ step' = step + 1)]_vars

\* Witness of C26: the reward map gives 3/4 to a slot outside the universe
\* of 2 slots and 1/4 to slot 0; update_scores receives 1 for slot 0 and 0
\* for slot 1.
C26_Witness ==
    /\ op = "update_scores"
    /\ Size(axons) = 2
    /\ \E u \in DOMAIN rewards : u \notin Uids(2) /\ rewards[u] = Rat(3, 4)
    /\ Get(rewards, 0) = Rat(1, 4)
    /\ call.rewards = << One, Zero >>
    /\ call.uids = << 0, 1 >>

====
